---- MODULE Spec2Model ----
(***************************************************************************)
(* Signal intake and risk-gated position lifecycle of the trading manager. *)
(*                                                                         *)
(*   TradingViewWebhookReceiver  src/src/tradingview/WebhookReceiver.js    *)
(*   TradingManager              src/unnamed/part_001                      *)
(*   PortfolioManager            src/src/portfolio/PortfolioManager.js     *)
(*                                                                         *)
(* JavaScript numbers are modelled as exact extended rationals <<n, d>>:   *)
(* d > 0 is the fraction n/d in lowest terms, <<1,0>> and <<-1,0>> are the *)
(* infinities and <<0,0>> is NaN.  Rounding of IEEE doubles is not         *)
(* modelled.  Fields of the program that no operation reads back           *)
(* (strategy labels, moment() timestamps, durations, raw payloads) are     *)
(* left out of the records.                                                *)
(***************************************************************************)
EXTENDS Integers, Sequences, FiniteSets, TLC

(***************************************************************************)
(* Bounds of the model                                                     *)
(***************************************************************************)
\* positions ever opened in one run (generatePositionId is a fresh id)
MaxIds == 2
\* webhook requests ever received in one run (generateSignalId is fresh)
MaxAlerts == 2
\* last instant of the clock (Date.now(), in the unit of signalTTL)
MaxTime == 2
\* drain passes that may be in flight at once
MaxPasses == 2
\* firings of the daily timer in one run
MaxDays == 2

(***************************************************************************)
(* Numbers                                                                 *)
(***************************************************************************)
RECURSIVE GCD(_, _)
GCD(a, b) == IF b = 0 THEN a ELSE GCD(b, a % b)

Abs(x) == IF x < 0 THEN -x ELSE x
Sgn(x) == IF x < 0 THEN -1 ELSE IF x > 0 THEN 1 ELSE 0

NaN == <<0, 0>>
PosInf == <<1, 0>>
NegInf == <<-1, 0>>

Norm(n, d) ==
    IF d = 0 THEN <<Sgn(n), 0>>
    ELSE LET g == GCD(Abs(n), Abs(d))
         IN  <<Sgn(d) * (n \div g), Abs(d) \div g>>

R(n) == <<n, 1>>
IsNaN(a) == a = NaN
IsFinite(a) == a[2] # 0

RNeg(a) == <<-a[1], a[2]>>

RAdd(a, b) ==
    IF IsNaN(a) \/ IsNaN(b) THEN NaN
    ELSE IF ~IsFinite(a) /\ ~IsFinite(b) THEN (IF a = b THEN a ELSE NaN)
    ELSE IF ~IsFinite(a) THEN a
    ELSE IF ~IsFinite(b) THEN b
    ELSE LET g == GCD(a[2], b[2])
         IN  Norm(a[1] * (b[2] \div g) + b[1] * (a[2] \div g), (a[2] \div g) * b[2])

RSub(a, b) == RAdd(a, RNeg(b))

RMul(a, b) ==
    IF IsNaN(a) \/ IsNaN(b) THEN NaN
    ELSE IF ~IsFinite(a) \/ ~IsFinite(b) THEN <<Sgn(a[1]) * Sgn(b[1]), 0>>
    ELSE IF a[1] = 0 \/ b[1] = 0 THEN <<0, 1>>
    ELSE LET g1 == GCD(Abs(a[1]), b[2])
             g2 == GCD(Abs(b[1]), a[2])
         IN  Norm((a[1] \div g1) * (b[1] \div g2), (a[2] \div g2) * (b[2] \div g1))

RDiv(a, b) ==
    IF IsNaN(a) \/ IsNaN(b) THEN NaN
    ELSE IF ~IsFinite(b) THEN (IF IsFinite(a) THEN <<0, 1>> ELSE NaN)
    ELSE IF b[1] = 0 THEN <<Sgn(a[1]), 0>>
    ELSE RMul(a, <<Sgn(b[1]) * b[2], Abs(b[1])>>)

RAbs(a) == <<Abs(a[1]), a[2]>>

\* a < b, a <= b, a = b as the comparison operators of the language decide
\* them: every comparison with NaN is false
RLt(a, b) ==
    /\ ~IsNaN(a) /\ ~IsNaN(b)
    /\ a # b
    /\ IF ~IsFinite(a) THEN a = NegInf
       ELSE IF ~IsFinite(b) THEN b = PosInf
       ELSE RSub(a, b)[1] < 0
REq(a, b) == ~IsNaN(a) /\ ~IsNaN(b) /\ a = b
RLe(a, b) == RLt(a, b) \/ REq(a, b)
RGt(a, b) == RLt(b, a)
RGe(a, b) == RLe(b, a)

\* Math.min / Math.max: NaN if either argument is NaN
RMin(a, b) == IF IsNaN(a) \/ IsNaN(b) THEN NaN ELSE IF RLt(b, a) THEN b ELSE a
RMax(a, b) == IF IsNaN(a) \/ IsNaN(b) THEN NaN ELSE IF RLt(a, b) THEN b ELSE a

\* truthiness of a number: 0 and NaN are falsy
Truthy(a) == ~IsNaN(a) /\ a # <<0, 1>>

(***************************************************************************)
(* Configuration (constructor arguments)                                   *)
(***************************************************************************)
\* PortfolioManager: config.initialCapital || 10000
initialCapital == 10000
\* config.maxRiskPerTrade || 0.02
maxRiskPerTrade == <<1, 50>>
\* config.maxPortfolioRisk || 0.10
maxPortfolioRisk == <<1, 10>>
\* config.maxOpenPositions || 5: the default, and a book of one position
MaxOpenPositionsConfigs == {1, 5}
\* share of the available capital one position may take
maxPositionShare == <<4, 5>>
\* TradingViewWebhookReceiver: config.signalTTL (default 60000), in clock units
signalTTL == 2
\* recent signals are kept for 10 x signalTTL
keepFactor == 10

(***************************************************************************)
(* State                                                                   *)
(***************************************************************************)
VARIABLES
    \* PortfolioManager
    maxOpenPositions,   \* this.maxOpenPositions, set by the constructor
    currentCapital,     \* this.currentCapital
    positions,          \* this.positions: Map id -> position, ids ascending
                        \* in insertion order
    closedTrades,       \* this.closedTrades
    nextId,             \* the next id generatePositionId hands out
    dailyPnL,           \* this.dailyPnL
    days,               \* the firings of the daily timer so far
    \* TradingViewWebhookReceiver
    webhookSecret,      \* TRUE when this.webhookSecret is configured
    allowedIPs,         \* this.allowedIPs
    listening,          \* TRUE while this.server accepts requests
    recentSignals,      \* this.recentSignals: Map id -> signal, as the
                        \* sequence of its values in insertion order
    signalSeq,          \* the next id generateSignalId hands out
    now,                \* Date.now()
    \* TradingManager
    isActive,           \* this.isActive
    control,            \* the start() or stop() call in flight, or "idle"
    signalQueue,        \* this.signalQueue
    processing,         \* this.processing
    passes,             \* the drain passes suspended at an await
    \* history
    alerts,             \* every alert that reached the /webhook handler
    \* observation of the last operation
    lastCall,           \* the operation, what it returned and, for a step of
                        \* the drain, the ids of the signals whose admission
                        \* or close it carried out, in order
    emitted             \* the events it emitted, in order

ledgerVars == <<maxOpenPositions, currentCapital, positions, closedTrades, nextId,
                dailyPnL, days>>
receiverVars == <<webhookSecret, allowedIPs, listening, recentSignals, signalSeq, now>>
managerVars == <<isActive, control, signalQueue, processing, passes>>
intakeVars == <<receiverVars, managerVars, alerts>>
obsVars == <<lastCall, emitted>>

(***************************************************************************)
(* PortfolioManager: pure parts                                            *)
(***************************************************************************)
\* symbol.replace('/USDT', '').replace('/USD', '') on the symbols in use
BaseSymbol(symbol) ==
    CASE symbol = "BTC/USDT" -> "BTC"
      [] symbol = "BTC/USD"  -> "BTC"
      [] symbol = "ETH/USDT" -> "ETH"
      [] symbol = "ETH/USD"  -> "ETH"
      [] OTHER -> symbol

correlationGroups(base) ==
    CASE base = "BTC" -> {"ETH", "LTC", "BCH"}
      [] base = "ETH" -> {"BTC", "ADA", "DOT"}
      [] base = "ADA" -> {"ETH", "DOT", "SOL"}
      [] base = "DOT" -> {"ETH", "ADA", "LINK"}
      [] OTHER -> {}

getCorrelatedSymbols(symbol) == correlationGroups(BaseSymbol(symbol))

\* variant: the limit off by one
checkCorrelationLimit_AllowsTwo(pos, symbol) ==
    Cardinality({id \in DOMAIN pos : pos[id].symbol \in getCorrelatedSymbols(symbol)}) <= 2

checkCorrelationLimit(pos, symbol) ==
    Cardinality({id \in DOMAIN pos : pos[id].symbol \in getCorrelatedSymbols(symbol)}) < 2

RECURSIVE SumOver(_, _)
\* Array.reduce((acc, x) => acc + f(x), 0) over the values of a map whose
\* keys ascend in insertion order; f is given as the function id -> term
SumOver(f, ids) ==
    IF ids = {} THEN R(0)
    ELSE LET m == CHOOSE i \in ids : \A j \in ids : j <= i
         IN  RAdd(SumOver(f, ids \ {m}), f[m])

positionRisk(p) == RDiv(RAbs(RSub(p.entryPrice, p.stopLoss)), p.entryPrice)

getCurrentPortfolioRisk(pos) ==
    SumOver([id \in DOMAIN pos |-> positionRisk(pos[id])], DOMAIN pos)

checkRiskBudget(pos) ==
    RLe(RAdd(getCurrentPortfolioRisk(pos), maxRiskPerTrade), maxPortfolioRisk)

getAvailableCapital(cap) == cap

\* variant: the position count compared with <= instead of <
Checks_CountOffByOne(cap, pos, symbol) ==
    [maxPositions |-> Cardinality(DOMAIN pos) <= maxOpenPositions,
     correlation  |-> checkCorrelationLimit(pos, symbol),
     riskBudget   |-> checkRiskBudget(pos),
     capital      |-> RGt(getAvailableCapital(cap), R(0))]

\* variant: the risk budget is not consulted
Checks_IgnoresRiskBudget(cap, pos, symbol) ==
    [maxPositions |-> Cardinality(DOMAIN pos) < maxOpenPositions,
     correlation  |-> checkCorrelationLimit(pos, symbol),
     riskBudget   |-> TRUE,
     capital      |-> RGt(getAvailableCapital(cap), R(0))]

\* the check vector of canOpenPosition
Checks(cap, pos, symbol) ==
    [maxPositions |-> Cardinality(DOMAIN pos) < maxOpenPositions,
     correlation  |-> checkCorrelationLimit(pos, symbol),
     riskBudget   |-> checkRiskBudget(pos),
     capital      |-> RGt(getAvailableCapital(cap), R(0))]

AllChecks(c) == c.maxPositions /\ c.correlation /\ c.riskBudget /\ c.capital

\* variant: the cap at 80% of the available capital is left out
calculatePositionSize_NoCap(cap, signal) ==
    LET riskAmount == RMul(cap, maxRiskPerTrade)
        stopDistance == RDiv(RAbs(RSub(signal.price, signal.stopLoss)), signal.price)
        positionValue == RDiv(riskAmount, stopDistance)
    IN  RDiv(positionValue, signal.price)

\* variant: the 80% cap is taken of the initial capital, not the available
calculatePositionSize_CapOfInitial(cap, signal) ==
    LET riskAmount == RMul(cap, maxRiskPerTrade)
        stopDistance == RDiv(RAbs(RSub(signal.price, signal.stopLoss)), signal.price)
        positionValue == RDiv(riskAmount, stopDistance)
        maxPositionValue == RMul(R(initialCapital), maxPositionShare)
    IN  RDiv(RMin(positionValue, maxPositionValue), signal.price)

calculatePositionSize(cap, signal) ==
    LET riskAmount == RMul(cap, maxRiskPerTrade)
        stopDistance == RDiv(RAbs(RSub(signal.price, signal.stopLoss)), signal.price)
        positionValue == RDiv(riskAmount, stopDistance)
        maxPositionValue == RMul(getAvailableCapital(cap), maxPositionShare)
    IN  RDiv(RMin(positionValue, maxPositionValue), signal.price)

calculatePnL(position, currentPrice) ==
    LET priceDiff == IF position.side = "long"
                     THEN RSub(currentPrice, position.entryPrice)
                     ELSE RSub(position.entryPrice, currentPrice)
    IN  RMul(position.size, priceDiff)

\* variant: the take-profit test comes first
ExitReason_TakeProfitFirst(position, currentPrice) ==
    IF position.side = "long"
    THEN IF RGe(currentPrice, position.takeProfit) THEN "take_profit"
         ELSE IF RLe(currentPrice, position.stopLoss) THEN "stop_loss"
         ELSE ""
    ELSE IF RLe(currentPrice, position.takeProfit) THEN "take_profit"
         ELSE IF RGe(currentPrice, position.stopLoss) THEN "stop_loss"
         ELSE ""

\* variant: a long is never closed at its target
ExitReason_NoLongTarget(position, currentPrice) ==
    IF position.side = "long"
    THEN IF RLe(currentPrice, position.stopLoss) THEN "stop_loss"
         ELSE ""
    ELSE IF RGe(currentPrice, position.stopLoss) THEN "stop_loss"
         ELSE IF RLe(currentPrice, position.takeProfit) THEN "take_profit"
         ELSE ""

\* the exit reason checkExitConditions decides on, "" when it keeps the position
ExitReason(position, currentPrice) ==
    IF position.side = "long"
    THEN IF RLe(currentPrice, position.stopLoss) THEN "stop_loss"
         ELSE IF RGe(currentPrice, position.takeProfit) THEN "take_profit"
         ELSE ""
    ELSE IF RGe(currentPrice, position.stopLoss) THEN "stop_loss"
         ELSE IF RLe(currentPrice, position.takeProfit) THEN "take_profit"
         ELSE ""

(***************************************************************************)
(* PortfolioManager: operations on the book                                *)
(* A book is [cap, pos, trades, nid, ev]: the four fields of the manager   *)
(* and the events emitted so far by the running handler.  Each operation   *)
(* returns [bk |-> the book after it, ret |-> what it returns].            *)
(***************************************************************************)
Book == [cap |-> currentCapital, pos |-> positions, trades |-> closedTrades,
         nid |-> nextId, ev |-> <<>>]

canOpenPosition(bk, symbol) ==
    LET checks == Checks(bk.cap, bk.pos, symbol)
        canOpen == AllChecks(checks)
    IN  [bk  |-> IF canOpen THEN bk
                 ELSE [bk EXCEPT !.ev = Append(@, [type |-> "positionRejected",
                                                   symbol |-> symbol,
                                                   checks |-> checks])],
         ret |-> canOpen]

\* variant: the id is the smallest one not open now, so the id of a closed
\* position is given out again
openPosition_ReusesId(bk, signal) ==
    LET adm == canOpenPosition(bk, signal.symbol)
        positionSize == calculatePositionSize(adm.bk.cap, signal)
        position == [id |-> CHOOSE n \in 1..adm.bk.nid : n \notin DOMAIN adm.bk.pos /\
                                 \A k \in 1..n - 1 : k \in DOMAIN adm.bk.pos,
                     symbol |-> signal.symbol,
                     side |-> signal.side,
                     entryPrice |-> signal.price,
                     size |-> positionSize,
                     stopLoss |-> signal.stopLoss,
                     takeProfit |-> signal.takeProfit,
                     status |-> "open",
                     unrealizedPnL |-> R(0),
                     maxDrawdown |-> R(0),
                     maxProfit |-> R(0)]
    IN  IF ~adm.ret THEN [bk |-> adm.bk, ret |-> "false", id |-> 0]
        ELSE [bk |-> [adm.bk EXCEPT
                        !.pos = [i \in DOMAIN @ \cup {position.id} |->
                                    IF i = position.id THEN position ELSE @[i]],
                        !.cap = RSub(@, RMul(positionSize, signal.price)),
                        !.nid = @ + 1,
                        !.ev = Append(@, [type |-> "positionOpened", id |-> position.id])],
              ret |-> "position", id |-> position.id]

\* variant: the capital is debited before the admission is decided
openPosition_DebitsFirst(bk, signal) ==
    LET adm == canOpenPosition(bk, signal.symbol)
        positionSize == calculatePositionSize(adm.bk.cap, signal)
        position == [id |-> adm.bk.nid,
                     symbol |-> signal.symbol,
                     side |-> signal.side,
                     entryPrice |-> signal.price,
                     size |-> positionSize,
                     stopLoss |-> signal.stopLoss,
                     takeProfit |-> signal.takeProfit,
                     status |-> "open",
                     unrealizedPnL |-> R(0),
                     maxDrawdown |-> R(0),
                     maxProfit |-> R(0)]
    IN  IF ~adm.ret
        THEN [bk |-> [adm.bk EXCEPT !.cap = RSub(@, RMul(positionSize, signal.price))],
              ret |-> "false", id |-> 0]
        ELSE [bk |-> [adm.bk EXCEPT
                        !.pos = [i \in DOMAIN @ \cup {position.id} |->
                                    IF i = position.id THEN position ELSE @[i]],
                        !.cap = RSub(@, RMul(positionSize, signal.price)),
                        !.nid = @ + 1,
                        !.ev = Append(@, [type |-> "positionOpened", id |-> position.id])],
              ret |-> "position", id |-> position.id]

\* variant: the position is stored without the positionOpened event
openPosition_NoEvent(bk, signal) ==
    LET adm == canOpenPosition(bk, signal.symbol)
        positionSize == calculatePositionSize(adm.bk.cap, signal)
        position == [id |-> adm.bk.nid,
                     symbol |-> signal.symbol,
                     side |-> signal.side,
                     entryPrice |-> signal.price,
                     size |-> positionSize,
                     stopLoss |-> signal.stopLoss,
                     takeProfit |-> signal.takeProfit,
                     status |-> "open",
                     unrealizedPnL |-> R(0),
                     maxDrawdown |-> R(0),
                     maxProfit |-> R(0)]
    IN  IF ~adm.ret THEN [bk |-> adm.bk, ret |-> "false", id |-> 0]
        ELSE [bk |-> [adm.bk EXCEPT
                        !.pos = [i \in DOMAIN @ \cup {position.id} |->
                                    IF i = position.id THEN position ELSE @[i]],
                        !.cap = RSub(@, RMul(positionSize, signal.price)),
                        !.nid = @ + 1],
              ret |-> "position", id |-> position.id]

openPosition(bk, signal) ==
    LET adm == canOpenPosition(bk, signal.symbol)
        positionSize == calculatePositionSize(adm.bk.cap, signal)
        position == [id |-> adm.bk.nid,
                     symbol |-> signal.symbol,
                     side |-> signal.side,
                     entryPrice |-> signal.price,
                     size |-> positionSize,
                     stopLoss |-> signal.stopLoss,
                     takeProfit |-> signal.takeProfit,
                     status |-> "open",
                     unrealizedPnL |-> R(0),
                     maxDrawdown |-> R(0),
                     maxProfit |-> R(0)]
    IN  IF ~adm.ret THEN [bk |-> adm.bk, ret |-> "false", id |-> 0]
        ELSE [bk |-> [adm.bk EXCEPT
                        !.pos = [i \in DOMAIN @ \cup {position.id} |->
                                    IF i = position.id THEN position ELSE @[i]],
                        !.cap = RSub(@, RMul(positionSize, signal.price)),
                        !.nid = @ + 1,
                        !.ev = Append(@, [type |-> "positionOpened", id |-> position.id])],
              ret |-> "position", id |-> position.id]

\* variant: the capital is credited with the PnL instead of the proceeds
closePosition_CreditsPnL(bk, positionId, closePrice, reason) ==
    IF positionId \notin DOMAIN bk.pos THEN [bk |-> bk, ret |-> "false"]
    ELSE LET position == bk.pos[positionId]
             pnl == calculatePnL(position, closePrice)
             trade == [id |-> position.id,
                       symbol |-> position.symbol,
                       side |-> position.side,
                       entryPrice |-> position.entryPrice,
                       size |-> position.size,
                       stopLoss |-> position.stopLoss,
                       takeProfit |-> position.takeProfit,
                       unrealizedPnL |-> position.unrealizedPnL,
                       maxDrawdown |-> position.maxDrawdown,
                       maxProfit |-> position.maxProfit,
                       closePrice |-> closePrice,
                       realizedPnL |-> pnl,
                       reason |-> reason,
                       status |-> "closed"]
         IN  [bk |-> [bk EXCEPT
                        !.trades = Append(@, trade),
                        !.pos = [i \in DOMAIN @ \ {positionId} |-> @[i]],
                        !.cap = RAdd(@, pnl),
                        !.ev = Append(@, [type |-> "positionClosed", id |-> positionId,
                                           reason |-> reason])],
              ret |-> "trade"]

\* variant: the entry stays in the map
closePosition_KeepsEntry(bk, positionId, closePrice, reason) ==
    IF positionId \notin DOMAIN bk.pos THEN [bk |-> bk, ret |-> "false"]
    ELSE LET position == bk.pos[positionId]
             pnl == calculatePnL(position, closePrice)
             trade == [id |-> position.id,
                       symbol |-> position.symbol,
                       side |-> position.side,
                       entryPrice |-> position.entryPrice,
                       size |-> position.size,
                       stopLoss |-> position.stopLoss,
                       takeProfit |-> position.takeProfit,
                       unrealizedPnL |-> position.unrealizedPnL,
                       maxDrawdown |-> position.maxDrawdown,
                       maxProfit |-> position.maxProfit,
                       closePrice |-> closePrice,
                       realizedPnL |-> pnl,
                       reason |-> reason,
                       status |-> "closed"]
         IN  [bk |-> [bk EXCEPT
                        !.trades = Append(@, trade),
                        !.cap = RAdd(@, RMul(position.size, closePrice)),
                        !.ev = Append(@, [type |-> "positionClosed", id |-> positionId,
                                           reason |-> reason])],
              ret |-> "trade"]

closePosition(bk, positionId, closePrice, reason) ==
    IF positionId \notin DOMAIN bk.pos THEN [bk |-> bk, ret |-> "false"]
    ELSE LET position == bk.pos[positionId]
             pnl == calculatePnL(position, closePrice)
             trade == [id |-> position.id,
                       symbol |-> position.symbol,
                       side |-> position.side,
                       entryPrice |-> position.entryPrice,
                       size |-> position.size,
                       stopLoss |-> position.stopLoss,
                       takeProfit |-> position.takeProfit,
                       unrealizedPnL |-> position.unrealizedPnL,
                       maxDrawdown |-> position.maxDrawdown,
                       maxProfit |-> position.maxProfit,
                       closePrice |-> closePrice,
                       realizedPnL |-> pnl,
                       reason |-> reason,
                       status |-> "closed"]
         IN  [bk |-> [bk EXCEPT
                        !.trades = Append(@, trade),
                        !.pos = [i \in DOMAIN @ \ {positionId} |-> @[i]],
                        !.cap = RAdd(@, RMul(position.size, closePrice)),
                        !.ev = Append(@, [type |-> "positionClosed", id |-> positionId,
                                           reason |-> reason])],
              ret |-> "trade"]

checkExitConditions(bk, positionId, position, currentPrice) ==
    LET reason == ExitReason(position, currentPrice)
    IN  IF reason # "" THEN closePosition(bk, positionId, currentPrice, reason).bk
        ELSE bk

RECURSIVE SumRealized(_)
\* trades.reduce((sum, t) => sum + t.realizedPnL, 0)
SumRealized(trades) ==
    IF trades = <<>> THEN R(0)
    ELSE RAdd(SumRealized(SubSeq(trades, 1, Len(trades) - 1)),
              trades[Len(trades)].realizedPnL)

getProfitFactor(trades) ==
    LET wins == SelectSeq(trades, LAMBDA t : RGt(t.realizedPnL, R(0)))
        losses == SelectSeq(trades, LAMBDA t : RLt(t.realizedPnL, R(0)))
        totalWins == SumRealized(wins)
        totalLosses == RAbs(SumRealized(losses))
    IN  IF REq(totalLosses, R(0)) THEN totalWins ELSE RDiv(totalWins, totalLosses)

\* getPortfolioSummary, the figures of it that the properties read
getPortfolioSummary(bk) == [profitFactor |-> getProfitFactor(bk.trades)]

\* variant: the exit check runs on the position as the previous tick left it
UpdateOne_ExitFirst(bk, id, marketData) ==
    LET position == bk.pos[id]
        \* a symbol the object has no entry for reads as undefined, which
        \* is falsy like NaN
        currentPrice == IF position.symbol \in DOMAIN marketData
                        THEN marketData[position.symbol] ELSE NaN
        unrealizedPnL == calculatePnL(position, currentPrice)
        pnlPercent == RDiv(unrealizedPnL, RMul(position.size, position.entryPrice))
        updated == [position EXCEPT
                      !.unrealizedPnL = unrealizedPnL,
                      !.maxProfit = RMax(@, pnlPercent),
                      !.maxDrawdown = RMin(@, pnlPercent)]
    IN  IF ~Truthy(currentPrice) THEN bk
        ELSE LET checked == checkExitConditions(bk, id, position, currentPrice)
             IN  IF id \in DOMAIN checked.pos
                 THEN [checked EXCEPT !.pos[id] = updated]
                 ELSE checked

\* variant: a position is revalued and checked even when the tick has no
\* price for its symbol
UpdateOne_NoSkip(bk, id, marketData) ==
    LET position == bk.pos[id]
        \* a symbol the object has no entry for reads as undefined, which
        \* is falsy like NaN
        currentPrice == IF position.symbol \in DOMAIN marketData
                        THEN marketData[position.symbol] ELSE NaN
        unrealizedPnL == calculatePnL(position, currentPrice)
        pnlPercent == RDiv(unrealizedPnL, RMul(position.size, position.entryPrice))
        updated == [position EXCEPT
                      !.unrealizedPnL = unrealizedPnL,
                      !.maxProfit = RMax(@, pnlPercent),
                      !.maxDrawdown = RMin(@, pnlPercent)]
    IN  checkExitConditions([bk EXCEPT !.pos[id] = updated], id, updated, currentPrice)

\* one iteration of the loop of updatePositions
\* variant: the excursions take the latest fraction instead of the extreme
UpdateOne_LatestExcursion(bk, id, marketData) ==
    LET position == bk.pos[id]
        currentPrice == IF position.symbol \in DOMAIN marketData
                        THEN marketData[position.symbol] ELSE NaN
        unrealizedPnL == calculatePnL(position, currentPrice)
        pnlPercent == RDiv(unrealizedPnL, RMul(position.size, position.entryPrice))
        updated == [position EXCEPT
                      !.unrealizedPnL = unrealizedPnL,
                      !.maxProfit = pnlPercent,
                      !.maxDrawdown = pnlPercent]
    IN  IF ~Truthy(currentPrice) THEN bk
        ELSE checkExitConditions([bk EXCEPT !.pos[id] = updated], id, updated, currentPrice)

UpdateOne(bk, id, marketData) ==
    LET position == bk.pos[id]
        \* a symbol the object has no entry for reads as undefined, which
        \* is falsy like NaN
        currentPrice == IF position.symbol \in DOMAIN marketData
                        THEN marketData[position.symbol] ELSE NaN
        unrealizedPnL == calculatePnL(position, currentPrice)
        pnlPercent == RDiv(unrealizedPnL, RMul(position.size, position.entryPrice))
        updated == [position EXCEPT
                      !.unrealizedPnL = unrealizedPnL,
                      !.maxProfit = RMax(@, pnlPercent),
                      !.maxDrawdown = RMin(@, pnlPercent)]
    IN  IF ~Truthy(currentPrice) THEN bk
        ELSE checkExitConditions([bk EXCEPT !.pos[id] = updated], id, updated, currentPrice)

RECURSIVE UpdateLoop(_, _, _)
\* for (const [id, position] of this.positions): ids in insertion order;
\* an entry deleted by the body is the current one, never a later one
UpdateLoop(bk, ids, marketData) ==
    IF ids = {} THEN bk
    ELSE LET m == CHOOSE i \in ids : \A j \in ids : i <= j
         IN  UpdateLoop(UpdateOne(bk, m, marketData), ids \ {m}, marketData)

updatePositions(bk, marketData) ==
    LET done == UpdateLoop(bk, DOMAIN bk.pos, marketData)
    IN  [done EXCEPT !.ev = Append(@, [type |-> "positionsUpdated",
                                       summary |-> getPortfolioSummary(done)])]

\* one iteration of the loop of rebalancePortfolio
RebalanceOne(bk, id) ==
    LET position == bk.pos[id]
        pnlPercent == RDiv(position.unrealizedPnL,
                           RMul(position.size, position.entryPrice))
        swept == IF RLt(pnlPercent, <<-3, 20>>)
                 THEN closePosition(bk, id,
                                    RMul(position.entryPrice, RAdd(R(1), pnlPercent)),
                                    "rebalance_loss").bk
                 ELSE bk
    IN  IF RGt(pnlPercent, <<1, 4>>)
        THEN [swept EXCEPT !.ev = Append(@, [type |-> "partialProfitSuggestion",
                                             id |-> id])]
        ELSE swept

RECURSIVE RebalanceLoop(_, _)
\* for (const [id, position] of this.positions), ids in insertion order
RebalanceLoop(bk, ids) ==
    IF ids = {} THEN bk
    ELSE LET m == CHOOSE i \in ids : \A j \in ids : i <= j
         IN  RebalanceLoop(RebalanceOne(bk, m), ids \ {m})

rebalancePortfolio(bk) ==
    \* the summary is taken before the sweep
    LET summary == getPortfolioSummary(bk)
    IN  [RebalanceLoop(bk, DOMAIN bk.pos) EXCEPT
            !.ev = Append(@, [type |-> "portfolioRebalanced", summary |-> summary])]

getOpenPositionsValue(bk) ==
    SumOver([id \in DOMAIN bk.pos |-> RMul(bk.pos[id].size, bk.pos[id].entryPrice)],
            DOMAIN bk.pos)

getTotalPortfolioValue(bk) == RAdd(bk.cap, getOpenPositionsValue(bk))

RECURSIVE SumSeries(_)
\* this.dailyPnL.reduce((sum, pnl) => sum + pnl, 0); the sum is exact, so it
\* is taken by halves to keep the evaluation shallow for a year of entries
SumSeries(series) ==
    IF series = <<>> THEN R(0)
    ELSE IF Len(series) = 1 THEN series[1]
    ELSE LET h == Len(series) \div 2
         IN  RAdd(SumSeries(SubSeq(series, 1, h)),
                  SumSeries(SubSeq(series, h + 1, Len(series))))

\* the days the series keeps (one year of trading days)
DailyCapacity == 252

\* variant: once the series is full the newest entry is the one dropped
updateDailyPnL_DropsNewest(series, bk) ==
    LET currentValue == getTotalPortfolioValue(bk)
        previousValue == IF Len(series) > 0
                         THEN RAdd(R(initialCapital), SumSeries(series))
                         ELSE R(initialCapital)
        pushed == Append(series, RSub(currentValue, previousValue))
    IN  IF Len(pushed) > DailyCapacity THEN SubSeq(pushed, 1, Len(pushed) - 1) ELSE pushed

\* updateDailyPnL: the series after one firing of the daily timer
updateDailyPnL(series, bk) ==
    LET currentValue == getTotalPortfolioValue(bk)
        previousValue == IF Len(series) > 0
                         THEN RAdd(R(initialCapital), SumSeries(series))
                         ELSE R(initialCapital)
        pushed == Append(series, RSub(currentValue, previousValue))
    IN  IF Len(pushed) > DailyCapacity THEN Tail(pushed) ELSE pushed

\* TradingManager.processBuySignal / processSellSignal, the portfolio part:
\* if (canOpenPosition(...)) { openPosition(positionSignal) }
trackVirtualPosition(bk, positionSignal) ==
    LET adm == canOpenPosition(bk, positionSignal.symbol)
    IN  IF adm.ret THEN openPosition(adm.bk, positionSignal)
        ELSE [bk |-> adm.bk, ret |-> "false", id |-> 0]

(***************************************************************************)
(* Inputs of the portfolio operations                                      *)
(***************************************************************************)
LedgerSymbols == {"BTC/USDT", "ETH"}
\* a price of 0 stands for a symbol the tick carries no price for
TickPrices == {R(0), R(50), R(200)}
ClosePrices == {R(50), R(100)}
\* the marketData objects handed to updatePositions: a price for at most one
\* symbol
MarketDatas ==
    {md \in [LedgerSymbols -> TickPrices] :
        Cardinality({sy \in LedgerSymbols : md[sy] # R(0)}) <= 1}

\* candidates: a long with a 2% stop, a long whose stop is 80% away, and a
\* short whose stop lies below and whose target lies above the entry
CandidateSignals ==
    {[symbol |-> "ETH", side |-> "long", price |-> R(100),
      stopLoss |-> R(98), takeProfit |-> R(102)],
     [symbol |-> "BTC/USDT", side |-> "long", price |-> R(100),
      stopLoss |-> R(20), takeProfit |-> R(500)],
     [symbol |-> "ETH", side |-> "short", price |-> R(100),
      stopLoss |-> R(50), takeProfit |-> R(200)]}

(***************************************************************************)
(* Actions: the public operations of PortfolioManager                      *)
(***************************************************************************)
SetBook(bk) ==
    /\ currentCapital' = bk.cap
    /\ positions' = bk.pos
    /\ closedTrades' = bk.trades
    /\ nextId' = bk.nid
    /\ emitted' = bk.ev
    /\ UNCHANGED <<maxOpenPositions, dailyPnL, days>>

CanOpenPosition ==
    \E symbol \in LedgerSymbols :
        LET r == canOpenPosition(Book, symbol)
        IN  /\ SetBook(r.bk)
            /\ lastCall' = [op |-> "canOpenPosition",
                            ret |-> IF r.ret THEN "true" ELSE "false"]
            /\ UNCHANGED intakeVars

OpenPosition ==
    \E signal \in CandidateSignals :
        LET r == openPosition(Book, signal)
        IN  /\ r.ret = "position" => nextId <= MaxIds
            /\ SetBook(r.bk)
            /\ lastCall' = [op |-> "openPosition", ret |-> r.ret]
            /\ UNCHANGED intakeVars

ClosePosition ==
    \E positionId \in 1..nextId, closePrice \in ClosePrices :
        LET r == closePosition(Book, positionId, closePrice, "manual")
        IN  /\ SetBook(r.bk)
            /\ lastCall' = [op |-> "closePosition", ret |-> r.ret, id |-> positionId]
            /\ UNCHANGED intakeVars

UpdatePositions ==
    \E marketData \in MarketDatas :
        /\ SetBook(updatePositions(Book, marketData))
        /\ lastCall' = [op |-> "updatePositions", ret |-> "none"]
        /\ UNCHANGED intakeVars

RebalancePortfolio ==
    /\ SetBook(rebalancePortfolio(Book))
    /\ lastCall' = [op |-> "rebalancePortfolio", ret |-> "none"]
    /\ UNCHANGED intakeVars

\* the callback of the daily setInterval of initializeTracking
UpdateDailyPnL ==
    /\ days < MaxDays
    /\ dailyPnL' = updateDailyPnL(dailyPnL, Book)
    /\ days' = days + 1
    /\ lastCall' = [op |-> "updateDailyPnL", ret |-> "none"]
    /\ UNCHANGED <<maxOpenPositions, currentCapital, positions, closedTrades, nextId,
                   intakeVars, emitted>>

(***************************************************************************)
(* TradingViewWebhookReceiver: pure parts                                  *)
(***************************************************************************)
\* /^[A-Z]{2,10}(USDT?|BTC|ETH)$/i.test(symbol) on the symbols in use
SymbolMatches(symbol) ==
    CASE symbol = "BTCUSD"   -> TRUE
      [] symbol = "ETHUSD"   -> TRUE
      [] symbol = "BTCUSDT"  -> TRUE
      [] symbol = "BTC/USDT" -> FALSE
      [] OTHER -> FALSE

\* action.toLowerCase() on the actions in use
ToLowerCase(action) ==
    CASE action = "BUY"   -> "buy"
      [] action = "SELL"  -> "sell"
      [] action = "CLOSE" -> "close"
      [] OTHER -> action

RecognizedActions == {"buy", "sell", "close", "long", "short", "exit"}

\* "" stands for a field the payload does not carry (undefined)
isValidSignal(signal) ==
    /\ signal.symbol # "" /\ signal.action # ""
    /\ SymbolMatches(signal.symbol)
    /\ ToLowerCase(signal.action) \in RecognizedActions

\* variant: the comparison with the TTL inverted
isDuplicateSignal_OutsideTTL(recent, signal) ==
    \E i \in 1..Len(recent) :
        /\ recent[i].symbol = signal.symbol
        /\ recent[i].action = signal.action
        /\ signal.timestamp - recent[i].timestamp > signalTTL

isDuplicateSignal(recent, signal) ==
    \E i \in 1..Len(recent) :
        /\ recent[i].symbol = signal.symbol
        /\ recent[i].action = signal.action
        /\ signal.timestamp - recent[i].timestamp < signalTTL

cleanOldSignals(recent, t) ==
    SelectSeq(recent, LAMBDA sg : ~(t - sg.timestamp > signalTTL * keepFactor))

\* the outcome of the signature middleware: "next", "401", or "500" when
\* crypto.timingSafeEqual throws on buffers of different length.
\* signature: "none" (no header), "valid" (the HMAC of the body), "wrong"
\* (another digest of the same length), "short" (a digest of another length)
verifySignature(secret, signature) ==
    IF ~secret \/ signature = "none" THEN "true"
    ELSE IF signature = "short" THEN "throws"
    ELSE IF signature = "valid" THEN "true" ELSE "false"

\* the event processSignal emits for an action: switch (signal.action)
RouteOf(action) ==
    CASE action \in {"buy", "long"}   -> "buySignal"
      [] action \in {"sell", "short"} -> "sellSignal"
      [] action \in {"close", "exit"} -> "closeSignal"
      [] OTHER -> "signal"

\* the type the listeners of setupEventHandlers attach, "" when nobody listens
TypeOf(route) ==
    CASE route = "buySignal"   -> "buy"
      [] route = "sellSignal"  -> "sell"
      [] route = "closeSignal" -> "close"
      [] OTHER -> ""

(***************************************************************************)
(* TradingManager: pure parts                                              *)
(***************************************************************************)
\* the symbols of the strategies loadStrategies enables
getSupportedSymbols == {"XAUUSD", "EURUSD", "GBPUSD", "USDJPY", "BTCUSD", "ETHUSD"}

validateSignal(signal) ==
    /\ signal.symbol # "" /\ signal.action # ""
    /\ signal.symbol \in getSupportedSymbols

\* QuantfuryManager.instruments
instruments ==
    {"EURUSD", "GBPUSD", "USDJPY", "AUDUSD", "USDCAD", "XAUUSD", "XAGUSD", "WTICRUD",
     "BTCUSD", "ETHUSD", "ADAUSD", "DOTUSD", "AAPL", "TSLA", "GOOGL", "AMZN", "MSFT"}

calculateDefaultStopLoss(price, side) ==
    IF side = "long" THEN RMul(price, RSub(R(1), <<1, 50>>))
    ELSE RMul(price, RAdd(R(1), <<1, 50>>))

calculateDefaultTakeProfit(price, stopLoss, side) ==
    LET risk == RAbs(RSub(price, stopLoss))
        reward == RMul(risk, <<5, 2>>)
    IN  IF side = "long" THEN RAdd(price, reward) ELSE RSub(price, reward)

\* the candidate processBuySignal / processSellSignal hand to the portfolio;
\* every alert of the model carries a price, so getCurrentPrice is not called
positionSignal(signal, side) ==
    [symbol |-> signal.symbol,
     side |-> side,
     price |-> signal.price,
     stopLoss |-> IF Truthy(signal.stopLoss) THEN signal.stopLoss
                  ELSE calculateDefaultStopLoss(signal.price, side),
     takeProfit |-> IF Truthy(signal.takeProfit) THEN signal.takeProfit
                    ELSE calculateDefaultTakeProfit(signal.price, signal.stopLoss, side)]

RECURSIVE CloseLoop(_, _, _)
\* for (const position of positions): the positions of the symbol, in map order
CloseLoop(bk, ids, closePrice) ==
    IF ids = {} THEN bk
    ELSE LET m == CHOOSE i \in ids : \A j \in ids : i <= j
         IN  CloseLoop(closePosition(bk, m, closePrice, "manual_close").bk,
                       ids \ {m}, closePrice)

processCloseSignal(bk, signal) ==
    CloseLoop(bk, {id \in DOMAIN bk.pos : bk.pos[id].symbol = signal.symbol}, signal.price)

\* processSignal up to its first await on a collaborator: validation and the
\* broker alert of a buy or sell, or the whole of a close.  stage tells what
\* is left after the await: "book" the portfolio part, "done" nothing
BeforeAwait(bk, signal) ==
    IF signal.type \in {"buy", "sell"}
    THEN IF ~validateSignal(signal) THEN [bk |-> bk, stage |-> "done"]
         ELSE IF signal.symbol \notin instruments THEN [bk |-> bk, stage |-> "book"]
         ELSE [bk |-> [bk EXCEPT !.ev = Append(@, [type |-> "quantfuryAlert",
                                                   signal |-> signal.id])],
               stage |-> "book"]
    ELSE [bk |-> processCloseSignal(bk, signal), stage |-> "done"]

\* processSignal after the await
AfterAwait(bk, pass) ==
    IF pass.stage = "book"
    THEN trackVirtualPosition(bk, positionSignal(pass.signal,
                IF pass.signal.type = "buy" THEN "long" ELSE "short")).bk
    ELSE bk

(***************************************************************************)
(* Inputs of the webhook                                                   *)
(***************************************************************************)
IPs == {"tv", "other"}
Signatures == {"none", "valid", "wrong", "short"}
\* <<req.ip, x-tradingview-signature>> of the requests: every signature from
\* the listed address, a valid one from another address
Credentials == ({"tv"} \X Signatures) \cup {<<"other", "valid">>}
\* JSON bodies, with price, stop_loss and take_profit as parseFloat reads
\* them: a buy, a sell and a close of a supported symbol, and a buy of a
\* symbol the pattern of isValidSignal rejects.
\* oversize tells whether the body exceeds the limit of express.json
Payloads ==
    {[symbol |-> "BTCUSD", action |-> ac, price |-> R(100), stopLoss |-> R(98),
      takeProfit |-> R(102), oversize |-> FALSE] : ac \in {"buy", "sell", "close"}}
    \cup {[symbol |-> "BTC/USDT", action |-> "buy", price |-> R(100),
           stopLoss |-> R(98), takeProfit |-> R(102), oversize |-> FALSE]}
\* a body over the limit of express.json
OversizedPayloads ==
    {[symbol |-> "BTCUSD", action |-> "buy", price |-> R(100),
      stopLoss |-> R(98), takeProfit |-> R(102), oversize |-> TRUE]}
\* the bodies express.json accepts
BodiesInLimit == {data \in Payloads : ~data.oversize}
ReceiverConfigs == {[secret |-> FALSE, ips |-> {}], [secret |-> TRUE, ips |-> {"tv"}]}

(***************************************************************************)
(* The webhook endpoint                                                    *)
(* The receiver and the queue it feeds, as [recent, seq, queue, ev], and   *)
(* what one POST /webhook makes of them: the body parser and the two       *)
(* middlewares of setupMiddleware, in the order they are installed, the    *)
(* route handler, processSignal and, through the listeners of              *)
(* setupEventHandlers, queueSignal.  A body over the limit is answered     *)
(* 413 by the parser.                                                      *)
(***************************************************************************)
Intake == [recent |-> recentSignals, seq |-> signalSeq, queue |-> signalQueue, ev |-> <<>>]

parseWebhookData(data, id, t) ==
    [id |-> id, timestamp |-> t, symbol |-> data.symbol, action |-> data.action,
     price |-> data.price, stopLoss |-> data.stopLoss, takeProfit |-> data.takeProfit]

\* variant: the test of isActive is left out
queueSignal_IgnoresPause(ik, signal, active) ==
    [ik EXCEPT !.queue = Append(@, signal),
               !.ev = Append(@, [type |-> "signalQueued", signal |-> signal.id])]

queueSignal(ik, signal, active) ==
    IF ~active THEN ik
    ELSE [ik EXCEPT !.queue = Append(@, signal),
                    !.ev = Append(@, [type |-> "signalQueued", signal |-> signal.id])]

processSignal(ik, signal, t, active) ==
    LET stored == [ik EXCEPT !.recent = cleanOldSignals(Append(@, signal), t)]
        route == RouteOf(signal.action)
        routed == [stored EXCEPT !.ev = Append(@, [type |-> route, signal |-> signal.id])]
    IN  IF ~isValidSignal(signal)
        THEN [stored EXCEPT !.ev = Append(@, [type |-> "invalidSignal",
                                              signal |-> signal.id])]
        ELSE IF TypeOf(route) = "" THEN routed
        ELSE queueSignal(routed, signal @@ [type |-> TypeOf(route)], active)

\* variant: a duplicate is remembered in the window before it is ignored
postWebhook_RemembersDuplicate(ik, secret, ips, ip, signature, data, t, active) ==
    LET signal == parseWebhookData(data, ik.seq, t)
        taken == [ik EXCEPT !.seq = @ + 1]
    IN  IF data.oversize THEN [ik |-> ik, status |-> "413"]
        ELSE IF ips # {} /\ ip \notin ips THEN [ik |-> ik, status |-> "403"]
        ELSE IF secret /\ verifySignature(secret, signature) = "false"
        THEN [ik |-> ik, status |-> "401"]
        ELSE IF secret /\ verifySignature(secret, signature) = "throws"
        THEN [ik |-> ik, status |-> "500"]
        ELSE IF isDuplicateSignal(ik.recent, signal)
        THEN [ik |-> [taken EXCEPT !.recent = Append(@, signal)],
              status |-> "duplicate_ignored"]
        ELSE [ik |-> processSignal(taken, signal, t, active), status |-> "received"]

postWebhook(ik, secret, ips, ip, signature, data, t, active) ==
    LET signal == parseWebhookData(data, ik.seq, t)
        taken == [ik EXCEPT !.seq = @ + 1]
    IN  IF data.oversize THEN [ik |-> ik, status |-> "413"]
        ELSE IF ips # {} /\ ip \notin ips THEN [ik |-> ik, status |-> "403"]
        ELSE IF secret /\ verifySignature(secret, signature) = "false"
        THEN [ik |-> ik, status |-> "401"]
        ELSE IF secret /\ verifySignature(secret, signature) = "throws"
        THEN [ik |-> ik, status |-> "500"]
        ELSE IF isDuplicateSignal(ik.recent, signal)
        THEN [ik |-> taken, status |-> "duplicate_ignored"]
        ELSE [ik |-> processSignal(taken, signal, t, active), status |-> "received"]

Webhook ==
    \E cred \in Credentials, data \in Payloads :
        LET r == postWebhook(Intake, webhookSecret, allowedIPs, cred[1], cred[2], data,
                             now, isActive)
            handled == r.ik.seq # signalSeq
        IN  /\ listening
            /\ handled => signalSeq <= MaxAlerts
            /\ recentSignals' = r.ik.recent
            /\ signalSeq' = r.ik.seq
            /\ signalQueue' = r.ik.queue
            /\ emitted' = r.ik.ev
            /\ lastCall' = [op |-> "webhook", ret |-> r.status]
            /\ alerts' = IF handled
                         THEN Append(alerts, [symbol |-> data.symbol,
                                              action |-> data.action,
                                              timestamp |-> now,
                                              queued |-> Len(r.ik.queue) > Len(signalQueue)])
                         ELSE alerts
            /\ UNCHANGED <<ledgerVars, webhookSecret, allowedIPs, listening, now,
                           isActive, control, processing, passes>>

\* the age at which cleanOldSignals drops an entry
LongSilence == signalTTL * keepFactor

\* time passes: one unit, at most MaxTime of them in a row
Tick ==
    /\ now % LongSilence < MaxTime
    /\ now' = now + 1
    /\ UNCHANGED <<ledgerVars, webhookSecret, allowedIPs, listening, recentSignals,
                   signalSeq, managerVars, alerts, obsVars>>

\* a long time passes without a request: the whole retention span, once
Elapse ==
    /\ now < LongSilence
    /\ now' = now + LongSilence
    /\ UNCHANGED <<ledgerVars, webhookSecret, allowedIPs, listening, recentSignals,
                   signalSeq, managerVars, alerts, obsVars>>

(***************************************************************************)
(* Actions: TradingManager.start() and stop()                              *)
(***************************************************************************)
\* start(): await this.webhookReceiver.start()
StartListening ==
    /\ control = "idle" /\ ~listening
    /\ listening' = TRUE
    /\ control' = "starting"
    /\ UNCHANGED <<ledgerVars, webhookSecret, allowedIPs, recentSignals, signalSeq, now,
                   isActive, signalQueue, processing, passes, alerts, obsVars>>

\* start(): this.isActive = true
StartActive ==
    /\ control = "starting"
    /\ isActive' = TRUE
    /\ control' = "idle"
    /\ lastCall' = [op |-> "start", ret |-> "true"]
    /\ emitted' = <<[type |-> "started"]>>
    /\ UNCHANGED <<ledgerVars, receiverVars, signalQueue, processing, passes, alerts>>

\* stop(): this.isActive = false; the server still serves until it is closed
StopInactive ==
    /\ control = "idle" /\ isActive
    /\ isActive' = FALSE
    /\ control' = "stopping"
    /\ UNCHANGED <<ledgerVars, receiverVars, signalQueue, processing, passes, alerts,
                   obsVars>>

\* stop(): await this.webhookReceiver.stop() resolves; paper trading closes
\* no position
StopClosed ==
    /\ control = "stopping"
    /\ listening' = FALSE
    /\ control' = "idle"
    /\ lastCall' = [op |-> "stop", ret |-> "none"]
    /\ emitted' = <<[type |-> "stopped"]>>
    /\ UNCHANGED <<ledgerVars, webhookSecret, allowedIPs, recentSignals, signalSeq, now,
                   isActive, signalQueue, processing, passes, alerts>>

(***************************************************************************)
(* Actions: the drain of the signal queue                                  *)
(* An await on a collaborator (the broker adapter, the price source) is a  *)
(* point where the pass is suspended and the timer or a request may run.   *)
(***************************************************************************)
\* a pass shifts the head of the queue and runs it up to its await
ShiftAndRun(bk, queue) ==
    LET signal == Head(queue)
        r == BeforeAwait(bk, signal)
    IN  [bk |-> r.bk, pass |-> [signal |-> signal, stage |-> r.stage],
         \* a close has touched the portfolio by now, a buy or sell has not
         decided |-> IF signal.type = "close" THEN <<signal.id>> ELSE <<>>]

\* the test at the head of the callback of setInterval:
\* if (this.signalQueue.length === 0 || !this.isActive) return
DrainStarts(queue, active) == ~(queue = <<>> \/ ~active)

\* variant: the pass reads the head of the queue and leaves it there
IntervalFires_LeavesHead ==
    /\ DrainStarts(signalQueue, isActive)
    /\ Cardinality(passes) < MaxPasses
    /\ LET r == ShiftAndRun(Book, signalQueue)
       IN  /\ SetBook(r.bk)
           /\ passes' = passes \cup {r.pass}
    /\ processing' = TRUE
    /\ signalQueue' = signalQueue
    /\ lastCall' = [op |-> "drain", ret |-> "suspended",
                    decided |-> ShiftAndRun(Book, signalQueue).decided]
    /\ UNCHANGED <<receiverVars, isActive, control, alerts>>

\* the callback of setInterval fires: a new pass starts
IntervalFires ==
    /\ DrainStarts(signalQueue, isActive)
    /\ Cardinality(passes) < MaxPasses
    /\ LET r == ShiftAndRun(Book, signalQueue)
       IN  /\ SetBook(r.bk)
           /\ passes' = passes \cup {r.pass}
    /\ processing' = TRUE
    /\ signalQueue' = Tail(signalQueue)
    /\ lastCall' = [op |-> "drain", ret |-> "suspended",
                    decided |-> ShiftAndRun(Book, signalQueue).decided]
    /\ UNCHANGED <<receiverVars, isActive, control, alerts>>

\* a suspended pass resumes: the rest of its signal, then the next iteration
\* of while (this.signalQueue.length > 0), or the end of the pass
ResumePass ==
    \E pass \in passes :
        LET bk == AfterAwait(Book, pass)
            \* the signal whose admission is decided by this resumption
            resumed == IF pass.stage = "book" THEN <<pass.signal.id>> ELSE <<>>
        IN  /\ bk.nid <= MaxIds + 1
            /\ IF signalQueue = <<>>
               THEN /\ SetBook(bk)
                    /\ passes' = passes \ {pass}
                    /\ processing' = FALSE
                    /\ signalQueue' = signalQueue
                    /\ lastCall' = [op |-> "drain", ret |-> "finished",
                                    decided |-> resumed]
               ELSE LET r == ShiftAndRun(bk, signalQueue)
                    IN  /\ SetBook(r.bk)
                        /\ passes' = (passes \ {pass}) \cup {r.pass}
                        /\ processing' = processing
                        /\ signalQueue' = Tail(signalQueue)
                        /\ lastCall' = [op |-> "drain", ret |-> "suspended",
                                        decided |-> resumed \o r.decided]
            /\ UNCHANGED <<receiverVars, isActive, control, alerts>>

\* the await of a suspended pass rejects (the broker adapter rethrows what it
\* catches): the catch of processSignal emits signalError, the portfolio
\* part of the signal is skipped and the loop of the pass goes on
RejectPass ==
    \E pass \in passes :
        LET bk == [Book EXCEPT !.ev = <<[type |-> "signalError",
                                         signal |-> pass.signal.id]>>]
        IN  /\ pass.stage = "book"
            /\ IF signalQueue = <<>>
               THEN /\ SetBook(bk)
                    /\ passes' = passes \ {pass}
                    /\ processing' = FALSE
                    /\ signalQueue' = signalQueue
                    /\ lastCall' = [op |-> "drain", ret |-> "finished",
                                    decided |-> <<>>]
               ELSE LET r == ShiftAndRun(bk, signalQueue)
                    IN  /\ SetBook(r.bk)
                        /\ passes' = (passes \ {pass}) \cup {r.pass}
                        /\ processing' = processing
                        /\ signalQueue' = Tail(signalQueue)
                        /\ lastCall' = [op |-> "drain", ret |-> "suspended",
                                        decided |-> r.decided]
            /\ UNCHANGED <<receiverVars, isActive, control, alerts>>

(***************************************************************************)
(* Specifications                                                          *)
(***************************************************************************)
vars == <<ledgerVars, intakeVars, obsVars>>

InitLedger ==
    /\ maxOpenPositions \in MaxOpenPositionsConfigs
    /\ currentCapital = R(initialCapital)
    /\ positions = <<>>
    /\ closedTrades = <<>>
    /\ nextId = 1
    /\ dailyPnL = <<>>
    /\ days = 0

InitIntake ==
    /\ \E c \in ReceiverConfigs : webhookSecret = c.secret /\ allowedIPs = c.ips
    /\ listening = FALSE
    /\ recentSignals = <<>>
    /\ signalSeq = 1
    /\ now = 0
    /\ isActive = FALSE
    /\ control = "idle"
    /\ signalQueue = <<>>
    /\ processing = FALSE
    /\ passes = {}
    /\ alerts = <<>>

InitObs ==
    /\ lastCall = [op |-> "constructor", ret |-> "none"]
    /\ emitted = <<>>

\* the system as wired: alerts come in through the webhook and reach the
\* portfolio through the queue
Init ==
    /\ InitLedger /\ maxOpenPositions = 5
    /\ InitIntake
    /\ InitObs

Next ==
    \/ Webhook
    \/ Tick
    \/ StartListening
    \/ StartActive
    \/ StopInactive
    \/ StopClosed
    \/ IntervalFires
    \/ ResumePass

Spec == Init /\ [][Next]_vars

\* the system as wired, configured for a single open position
InitCapped ==
    /\ InitLedger /\ maxOpenPositions = 1
    /\ InitIntake
    /\ InitObs

SpecCapped == InitCapped /\ [][Next]_vars

\* the receiver and the queue over a long span of time, nothing drained
NextWindow ==
    \/ Webhook
    \/ Tick
    \/ Elapse
    \/ StartListening
    \/ StartActive

SpecWindow == Init /\ [][NextWindow]_vars

\* the system once started and never stopped, with a broker adapter whose
\* calls may fail.  The timer keeps firing; nothing is assumed of the awaits
InitDrain ==
    /\ InitLedger /\ maxOpenPositions = 5
    /\ InitIntake /\ ~webhookSecret
    /\ InitObs

NextDrain ==
    \/ Webhook
    \/ StartListening
    \/ StartActive
    \/ IntervalFires
    \/ ResumePass
    \/ RejectPass

\* the timer callback would start a pass now
TimerReady == DrainStarts(signalQueue, isActive) /\ Cardinality(passes) < MaxPasses

\* weak fairness of the timer, WF_vars(IntervalFires), written out with its
\* enabling condition: the callback is not left out forever while it would
\* start a pass
SpecDrain ==
    /\ InitDrain /\ [][NextDrain]_vars
    /\ ([]<>~TimerReady) \/ ([]<><<IntervalFires>>_vars)

\* the portfolio manager driven through its public operations
InitLedgerOnly ==
    /\ InitLedger
    /\ InitIntake /\ ~webhookSecret
    /\ InitObs

NextLedger ==
    \/ CanOpenPosition
    \/ OpenPosition
    \/ ClosePosition
    \/ UpdatePositions

SpecLedger == InitLedgerOnly /\ [][NextLedger]_vars

\* the portfolio manager revalued by price ticks and swept by the rebalance
NextRebalance ==
    \/ OpenPosition
    \/ UpdatePositions
    \/ RebalancePortfolio

SpecRebalance == InitLedgerOnly /\ [][NextRebalance]_vars

\* the series of a manager that has just been constructed, and of one that
\* has run 251 days without a trade: 251 entries of 0
QuietYear == [i \in 1..DailyCapacity - 1 |-> R(0)]

InitDaily ==
    /\ maxOpenPositions = 5
    /\ currentCapital = R(initialCapital)
    /\ positions = <<>>
    /\ closedTrades = <<>>
    /\ nextId = 1
    /\ dailyPnL \in {<<>>, QuietYear}
    /\ days = 0
    /\ InitIntake /\ ~webhookSecret
    /\ InitObs

\* the portfolio manager with its daily timer
NextDaily ==
    \/ OpenPosition
    \/ UpdatePositions
    \/ UpdateDailyPnL

SpecDaily == InitDaily /\ [][NextDaily]_vars

(***************************************************************************)
(* Quantities the properties are stated in                                 *)
(***************************************************************************)
RECURSIVE SeqSum(_)
\* the sum of a sequence of numbers
SeqSum(q) ==
    IF q = <<>> THEN R(0)
    ELSE IF Len(q) <= 4 THEN RAdd(SeqSum(SubSeq(q, 1, Len(q) - 1)), q[Len(q)])
    ELSE LET k == (2 * Len(q)) \div 3
         IN  RAdd(SeqSum(SubSeq(q, 1, k)), SeqSum(SubSeq(q, k + 1, Len(q))))

OpenIds == DOMAIN positions
ClosedIds == {closedTrades[i].id : i \in 1..Len(closedTrades)}
TradesOf(trades, id) == {i \in 1..Len(trades) : trades[i].id = id}

\* sum over the open positions of |entryPrice - stopLoss| / entryPrice
RiskFractionSum ==
    SumOver([id \in OpenIds |->
                RDiv(RAbs(RSub(positions[id].entryPrice, positions[id].stopLoss)),
                     positions[id].entryPrice)], OpenIds)

\* sum over the open positions of size x entryPrice
CommittedCapital ==
    SumOver([id \in OpenIds |-> RMul(positions[id].size, positions[id].entryPrice)], OpenIds)

RealizedTotal == SeqSum([i \in 1..Len(closedTrades) |-> closedTrades[i].realizedPnL])

(***************************************************************************)
(* C1  Dedup (as claimed): of any two alerts with the same symbol and the  *)
(* same action that arrive less than signalTTL apart, exactly one is       *)
(* appended to the signal queue.                                           *)
(* Fails: both are left out when the first is dropped (system not active,  *)
(* alert invalid) and still remembered, or when both repeat a third one.   *)
(***************************************************************************)
SameIntent(a, b) ==
    /\ a.symbol = b.symbol
    /\ a.action = b.action
    /\ Abs(a.timestamp - b.timestamp) < signalTTL

C1_ExactlyOneAdmitted ==
    \A i, j \in 1..Len(alerts) :
        (i < j /\ SameIntent(alerts[i], alerts[j])) => (alerts[i].queued # alerts[j].queued)

(***************************************************************************)
(* C1  Dedup (amended): of any two alerts with the same symbol and the     *)
(* same action that arrive less than signalTTL apart, at most one is       *)
(* appended to the signal queue.                                           *)
(***************************************************************************)
C1_AtMostOneAdmitted ==
    \A i, j \in 1..Len(alerts) :
        (i < j /\ SameIntent(alerts[i], alerts[j])) => ~(alerts[i].queued /\ alerts[j].queued)

\* an alert was queued and its repetition within the TTL has just been ignored
W_C1_RepetitionIgnored ==
    /\ lastCall.op = "webhook" /\ lastCall.ret = "duplicate_ignored"
    /\ Len(alerts) >= 2
    /\ \E i \in 1..(Len(alerts) - 1) :
          /\ SameIntent(alerts[i], alerts[Len(alerts)])
          /\ alerts[i].queued
          /\ ~alerts[Len(alerts)].queued

(***************************************************************************)
(* C2  Risk budget: in every state the sum over the open positions of      *)
(* |entryPrice - stopLoss| / entryPrice is at most maxPortfolioRisk.        *)
(* Fails: checkRiskBudget charges every candidate maxRiskPerTrade, never   *)
(* the stop distance the position is opened with.                          *)
(***************************************************************************)
C2_RiskBudgetInvariant == RLe(RiskFractionSum, maxPortfolioRisk)

(***************************************************************************)
(* C3  Capital conservation: in every state between two operations,        *)
(* availableCapital plus the committed capital of the open positions       *)
(* equals initialCapital plus the realized PnL of all closed trades.       *)
(* Fails for a short closed away from its entry price: closePosition       *)
(* credits size x closePrice whatever the side.                            *)
(***************************************************************************)
C3_CapitalConservation ==
    RAdd(getAvailableCapital(currentCapital), CommittedCapital)
        = RAdd(R(initialCapital), RealizedTotal)

C5_BadSignatureRejected ==
    (webhookSecret /\ listening) =>
        \A ip \in allowedIPs, signature \in Signatures \ {"valid"}, data \in BodiesInLimit :
            LET r == postWebhook(Intake, webhookSecret, allowedIPs, ip, signature, data,
                                 now, isActive)
            IN  r.status = "401" /\ r.ik = Intake

(***************************************************************************)
(* C6  Idempotent close: a closePosition call on an id that is not open    *)
(* (already closed, or never issued) returns the not-found result, emits   *)
(* nothing and changes neither the capital, the open set nor the trade     *)
(* history; a call on an open id appends exactly one ClosedTrade for it,   *)
(* removes it from the open set and credits the capital once; so no id     *)
(* ever has two ClosedTrades.                                              *)
(***************************************************************************)
C6_CloseStep ==
    lastCall'.op = "closePosition" =>
        LET id == lastCall'.id
        IN  /\ id \notin OpenIds =>
                /\ lastCall'.ret = "false"
                /\ emitted' = <<>>
                /\ UNCHANGED <<currentCapital, positions, closedTrades>>
            /\ id \in OpenIds =>
                /\ lastCall'.ret = "trade"
                /\ Len(closedTrades') = Len(closedTrades) + 1
                /\ SubSeq(closedTrades', 1, Len(closedTrades)) = closedTrades
                /\ closedTrades'[Len(closedTrades')].id = id
                /\ DOMAIN positions' = OpenIds \ {id}
                /\ currentCapital' =
                       RAdd(currentCapital,
                            RMul(positions[id].size,
                                 closedTrades'[Len(closedTrades')].closePrice))
                /\ Len(SelectSeq(emitted', LAMBDA e : e.type = "positionClosed")) = 1
            /\ Cardinality(TradesOf(closedTrades', id)) <= 1

C6_IdempotentClose == [][C6_CloseStep]_vars

\* a second close of an id that was closed before has returned not-found
W_C6_SecondClose ==
    /\ lastCall.op = "closePosition"
    /\ lastCall.ret = "false"
    /\ lastCall.id \in ClosedIds

(***************************************************************************)
(* C7  Exit determinism: a tick of updatePositions that carries a price    *)
(* for the symbol of an open position closes it exactly when the price     *)
(* is at or beyond its stop (long: price <= stopLoss, short: price >=      *)
(* stopLoss) or its target (long: price >= takeProfit, short: price <=     *)
(* takeProfit); the trade then carries the tick price as closePrice, a     *)
(* reason whose condition holds, and realizedPnL = size x (price - entry)  *)
(* for a long, size x (entry - price) for a short.                         *)
(***************************************************************************)
StopHit(p, price) ==
    IF p.side = "long" THEN RLe(price, p.stopLoss) ELSE RGe(price, p.stopLoss)
TargetHit(p, price) ==
    IF p.side = "long" THEN RGe(price, p.takeProfit) ELSE RLe(price, p.takeProfit)

C8_StopLossPriority ==
    \A md \in MarketDatas :
        LET after == updatePositions(Book, md)
            fresh == SubSeq(after.trades, Len(closedTrades) + 1, Len(after.trades))
        IN  \A id \in OpenIds :
                LET p == positions[id]
                    price == md[p.symbol]
                IN  (price # R(0) /\ StopHit(p, price) /\ TargetHit(p, price)) =>
                        /\ Cardinality(TradesOf(fresh, id)) = 1
                        /\ \A i \in TradesOf(fresh, id) : fresh[i].reason = "stop_loss"

\* a tick has just closed a position whose two conditions both held at the
\* close price
W_C8_BothConditions ==
    /\ lastCall.op = "updatePositions"
    /\ Len(closedTrades) > 0
    /\ LET t == closedTrades[Len(closedTrades)]
       IN  /\ \E i \in 1..Len(emitted) :
                  emitted[i].type = "positionClosed" /\ emitted[i].id = t.id
           /\ StopHit(t, t.closePrice) /\ TargetHit(t, t.closePrice)
           /\ t.reason = "stop_loss"

(***************************************************************************)
(* C9  Admission control: canOpenPosition returns true exactly when the    *)
(* four checks hold (fewer than maxOpenPositions open, fewer than two      *)
(* open positions in symbols correlated with the candidate, risk of the    *)
(* book + maxRiskPerTrade <= maxPortfolioRisk, availableCapital > 0); a    *)
(* rejected candidate, whether checked directly, handed to openPosition    *)
(* or coming from a buy/sell signal, produces exactly one positionRejected *)
(* event carrying the four checks, an admitted one produces none.          *)
(***************************************************************************)
FourChecks(symbol) ==
    [maxPositions |-> Cardinality(OpenIds) < maxOpenPositions,
     correlation  |-> Cardinality({id \in OpenIds :
                         positions[id].symbol \in getCorrelatedSymbols(symbol)}) < 2,
     riskBudget   |-> RLe(RAdd(RiskFractionSum, maxRiskPerTrade), maxPortfolioRisk),
     capital      |-> RGt(currentCapital, R(0))]

Rejections(ev) == SelectSeq(ev, LAMBDA e : e.type = "positionRejected")

C9_AdmissionControl ==
    /\ \A symbol \in LedgerSymbols :
          LET r == canOpenPosition(Book, symbol)
              c == FourChecks(symbol)
              all == c.maxPositions /\ c.correlation /\ c.riskBudget /\ c.capital
          IN  /\ r.ret = all
              /\ r.ret => r.bk.ev = <<>>
              /\ ~r.ret => r.bk.ev = <<[type |-> "positionRejected",
                                        symbol |-> symbol, checks |-> c]>>
    /\ \A signal \in CandidateSignals :
          LET c == FourChecks(signal.symbol)
              all == c.maxPositions /\ c.correlation /\ c.riskBudget /\ c.capital
              o == openPosition(Book, signal)
              t == trackVirtualPosition(Book, signal)
          IN  /\ (o.ret = "position") = all
              /\ (t.ret = "position") = all
              /\ all => Rejections(o.bk.ev) = <<>> /\ Rejections(t.bk.ev) = <<>>
              /\ ~all => /\ o.bk.ev = <<[type |-> "positionRejected",
                                         symbol |-> signal.symbol, checks |-> c]>>
                         /\ t.bk.ev = o.bk.ev

\* a candidate has just been rejected on its risk budget alone, with one event
W_C9_Rejected ==
    /\ lastCall.op \in {"canOpenPosition", "openPosition"}
    /\ lastCall.ret = "false"
    /\ Len(emitted) = 1
    /\ emitted[1].type = "positionRejected"
    /\ emitted[1].checks = [maxPositions |-> TRUE, correlation |-> TRUE,
                            riskBudget |-> FALSE, capital |-> TRUE]

(***************************************************************************)
(* C10  Correlation guard: with two or more open positions in symbols the  *)
(* correlation table lists for the candidate's symbol, the candidate is    *)
(* rejected with correlation = false in the check vector, and the other    *)
(* three entries are true exactly when their own conditions hold; with     *)
(* fewer than two such positions the correlation check is true.            *)
(***************************************************************************)
CorrelatedOpen(symbol) ==
    {id \in OpenIds : positions[id].symbol \in getCorrelatedSymbols(symbol)}

OpenCount(bk) == Cardinality(DOMAIN bk.pos)

C11_OpenCountBounded ==
    /\ OpenCount(Book) <= maxOpenPositions
    /\ \A signal \in CandidateSignals :
          OpenCount(openPosition(Book, signal).bk) <= maxOpenPositions
    /\ \A signal \in CandidateSignals :
          OpenCount(trackVirtualPosition(Book, signal).bk) <= maxOpenPositions
    /\ \A marketData \in MarketDatas :
          OpenCount(updatePositions(Book, marketData)) <= maxOpenPositions
    /\ \A positionId \in 1..nextId, closePrice \in ClosePrices :
          OpenCount(closePosition(Book, positionId, closePrice, "manual").bk)
              <= maxOpenPositions

\* the book is full and the drain has just had a queued signal refused for it
W_C11_RefusedAtLimit ==
    /\ OpenCount(Book) = maxOpenPositions
    /\ lastCall.op = "drain"
    /\ \E i \in 1..Len(emitted) :
          /\ emitted[i].type = "positionRejected"
          /\ ~emitted[i].checks.maxPositions

(***************************************************************************)
(* C12  Position sizing: for a signal whose stop differs from its price,   *)
(* the size is min(capital x maxRiskPerTrade / (|price - stopLoss| /       *)
(* price), 0.8 x capital) / price, so size x price is at most 0.8 x        *)
(* capital, and an admitted position is opened with that size; capital     *)
(* 10000, price 2000 and stop 1990 give 4 units.                           *)
(***************************************************************************)
SizingExample == [symbol |-> "XAUUSD", side |-> "long", price |-> R(2000),
                  stopLoss |-> R(1990), takeProfit |-> R(2025)]

ExpectedSize(cap, price, stopLoss) ==
    LET raw == RDiv(RMul(cap, <<1, 50>>), RDiv(RAbs(RSub(price, stopLoss)), price))
        limit == RMul(<<4, 5>>, cap)
    IN  RDiv(IF RLt(limit, raw) THEN limit ELSE raw, price)

C12_PositionSizing ==
    /\ calculatePositionSize(R(10000), SizingExample) = R(4)
    /\ \A signal \in CandidateSignals \cup {SizingExample} :
          LET size == calculatePositionSize(currentCapital, signal)
              r == openPosition(Book, signal)
          IN  signal.stopLoss # signal.price =>
                /\ size = ExpectedSize(currentCapital, signal.price, signal.stopLoss)
                /\ RLe(RMul(size, signal.price), RMul(<<4, 5>>, currentCapital))
                /\ r.ret = "position" =>
                      /\ r.bk.pos[r.id].size = size
                      /\ r.bk.cap = RSub(currentCapital, RMul(size, signal.price))

\* a position has just been opened at the cap: it commits 80% of the capital
\* that was available, which leaves a quarter of its value
W_C12_OpenedAtCap ==
    /\ lastCall.op = "openPosition" /\ lastCall.ret = "position"
    /\ (nextId - 1) \in DOMAIN positions
    /\ LET p == positions[nextId - 1]
       IN  RMul(p.size, p.entryPrice) = RMul(R(4), currentCapital)

(***************************************************************************)
(* C13  Round trip: a position, long or short, that is opened and closed   *)
(* at its entry price with nothing in between leaves the capital and the   *)
(* open set as they were before the open, and its trade records a          *)
(* realizedPnL of 0.                                                       *)
(***************************************************************************)
C13_RoundTrip ==
    \A signal \in CandidateSignals :
        LET o == openPosition(Book, signal)
            c == closePosition(o.bk, o.id, signal.price, "manual")
        IN  o.ret = "position" =>
              /\ c.ret = "trade"
              /\ c.bk.cap = currentCapital
              /\ c.bk.pos = positions
              /\ Len(c.bk.trades) = Len(closedTrades) + 1
              /\ c.bk.trades[Len(c.bk.trades)].id = o.id
              /\ c.bk.trades[Len(c.bk.trades)].realizedPnL = R(0)

\* the first position of the book, a short, has just been closed at its entry
\* price, and the capital is the initial one again
W_C13_ShortClosedAtEntry ==
    /\ lastCall.op = "closePosition" /\ lastCall.ret = "trade"
    /\ Len(closedTrades) = 1 /\ positions = <<>>
    /\ closedTrades[1].side = "short"
    /\ closedTrades[1].closePrice = closedTrades[1].entryPrice
    /\ closedTrades[1].realizedPnL = R(0)
    /\ currentCapital = R(initialCapital)

(***************************************************************************)
(* C14  A webhook payload that fails validation (symbol or action absent,  *)
(* symbol outside the pattern, action not recognized) is answered 400 and  *)
(* is not enqueued.                                                        *)
(* Fails: processSignal emits invalidSignal and returns; the handler then  *)
(* answers 200 with status received.                                       *)
(***************************************************************************)
\* bodies that fail isValidSignal, one for each way to fail
InvalidPayloads ==
    {[symbol |-> sy, action |-> ac, price |-> R(100), stopLoss |-> R(98),
      takeProfit |-> R(102), oversize |-> FALSE] :
        <<sy, ac>> \in {<<"", "buy">>, <<"BTCUSD", "">>, <<"BTC/USDT", "buy">>,
                        <<"BTCUSD", "hold">>}}

\* a request the two middlewares let through
Admitted(ip, signature) ==
    /\ allowedIPs # {} => ip \in allowedIPs
    /\ webhookSecret => verifySignature(webhookSecret, signature) = "true"

C14_InvalidAnswered400 ==
    listening =>
        \A cred \in Credentials, data \in InvalidPayloads :
            LET r == postWebhook(Intake, webhookSecret, allowedIPs, cred[1], cred[2], data,
                                 now, isActive)
            IN  Admitted(cred[1], cred[2]) =>
                    (r.status = "400" /\ r.ik.queue = signalQueue)

(***************************************************************************)
(* C15  A webhook alert detected as a duplicate is answered 200 with       *)
(* status duplicate_ignored and has no effect: the queue and the           *)
(* recent-signal window stay as they were and no event is emitted; no      *)
(* other alert gets that answer.                                           *)
(***************************************************************************)
C15_DuplicateNoEffect ==
    listening =>
        \A cred \in Credentials, data \in BodiesInLimit \cup InvalidPayloads :
            LET r == postWebhook(Intake, webhookSecret, allowedIPs, cred[1], cred[2], data,
                                 now, isActive)
                signal == parseWebhookData(data, signalSeq, now)
            IN  Admitted(cred[1], cred[2]) =>
                  /\ (r.status = "duplicate_ignored") <=>
                         isDuplicateSignal(recentSignals, signal)
                  /\ r.status = "duplicate_ignored" =>
                        /\ r.ik.queue = signalQueue
                        /\ r.ik.recent = recentSignals
                        /\ r.ik.ev = <<>>

\* the second of two alerts has just been ignored: the window still holds
\* one entry, the queue is as long as before and nothing was emitted
W_C15_SecondIgnored ==
    /\ lastCall.op = "webhook" /\ lastCall.ret = "duplicate_ignored"
    /\ Len(alerts) = 2 /\ Len(recentSignals) = 1
    /\ alerts[1].queued /\ ~alerts[2].queued
    /\ emitted = <<>>

(***************************************************************************)
(* C16  While the system is not active, enqueue is a no-op: queueSignal    *)
(* leaves the queue as it is and emits no signalQueued event, and a        *)
(* webhook alert that arrives then is answered all the same while the      *)
(* queue stays as long as it was.                                          *)
(***************************************************************************)
QueuedEvents(ev) == SelectSeq(ev, LAMBDA x : x.type = "signalQueued")

C16_DropWhileInactive ==
    ~isActive =>
        \A data \in BodiesInLimit :
            LET signal == parseWebhookData(data, signalSeq, now) @@ [type |-> "buy"]
                q == queueSignal(Intake, signal, isActive)
            IN  /\ q.queue = signalQueue
                /\ QueuedEvents(q.ev) = <<>>
                /\ listening =>
                      \A cred \in Credentials :
                          LET r == postWebhook(Intake, webhookSecret, allowedIPs, cred[1],
                                               cred[2], data, now, isActive)
                          IN  Admitted(cred[1], cred[2]) =>
                                /\ r.status \in {"received", "duplicate_ignored"}
                                /\ r.ik.queue = signalQueue
                                /\ QueuedEvents(r.ik.ev) = <<>>

\* a valid alert has just been received and routed while the system was not
\* active: it was answered as received and is not in the queue
W_C16_DroppedWhileInactive ==
    /\ ~isActive
    /\ lastCall.op = "webhook" /\ lastCall.ret = "received"
    /\ \E i \in 1..Len(emitted) : emitted[i].type \in {"buySignal", "sellSignal", "closeSignal"}
    /\ QueuedEvents(emitted) = <<>>
    /\ ~alerts[Len(alerts)].queued

C18_StageOrder ==
    listening =>
        \A ip \in IPs, signature \in Signatures,
           data \in Payloads \cup InvalidPayloads \cup OversizedPayloads :
            LET r == postWebhook(Intake, webhookSecret, allowedIPs, ip, signature, data,
                                 now, isActive)
                signal == parseWebhookData(data, signalSeq, now)
                ipFails == allowedIPs # {} /\ ip \notin allowedIPs
                signatureFails == webhookSecret /\ signature = "wrong"
            IN  /\ ipFails => r.status = "403"
                /\ (~ipFails /\ signatureFails) => r.status = "401"
                /\ (Admitted(ip, signature) /\ data.oversize) => r.status = "413"
                /\ (Admitted(ip, signature) /\ ~data.oversize /\ ~isValidSignal(signal))
                       => r.status # "duplicate_ignored"

(***************************************************************************)
(* C19  IP allow-list: with a non-empty list, a request from an address    *)
(* outside it is answered 403 and changes nothing (window, queue,          *)
(* events); with an empty list no request is answered 403.                 *)
(* Fails: the body parser runs before the check and answers 413 to an      *)
(* oversized body from an address outside the list.                        *)
(***************************************************************************)
C19_IpAllowList ==
    listening =>
        \A ip \in IPs, signature \in Signatures,
           data \in Payloads \cup InvalidPayloads \cup OversizedPayloads :
            LET r == postWebhook(Intake, webhookSecret, allowedIPs, ip, signature, data,
                                 now, isActive)
            IN  /\ (allowedIPs # {} /\ ip \notin allowedIPs) =>
                       (r.status = "403" /\ r.ik = Intake)
                /\ allowedIPs = {} => r.status # "403"

(***************************************************************************)
(* C20  Bounded dedup window: after any intake call, whether the alert is  *)
(* accepted, invalid or a duplicate, the recent-signal window holds no     *)
(* entry older than 10 x signalTTL.                                        *)
(* Fails: cleanOldSignals is called by processSignal only, which a         *)
(* duplicate never reaches.                                                *)
(***************************************************************************)
C20_WindowBounded ==
    listening =>
        \A cred \in Credentials, data \in BodiesInLimit :
            LET r == postWebhook(Intake, webhookSecret, allowedIPs, cred[1], cred[2], data,
                                 now, isActive)
            IN  Admitted(cred[1], cred[2]) =>
                    \A i \in 1..Len(r.ik.recent) :
                        now - r.ik.recent[i].timestamp <= signalTTL * keepFactor

(***************************************************************************)
(* C21  Signal invariant: every signal in the signal queue has a symbol    *)
(* the pattern of isValidSignal accepts, a recognized action and a price   *)
(* that is absent or a finite positive number, whatever bodies the         *)
(* webhook is sent.                                                        *)
(* Fails: the price read by parseFloat is never examined.                  *)
(***************************************************************************)
\* bodies with an unusual price: negative, zero as a string ("0" is truthy,
\* parseFloat gives 0), "Infinity", and none at all (parseFloat gives NaN)
OddPricePayloads ==
    {[symbol |-> "BTCUSD", action |-> "buy", price |-> p, stopLoss |-> R(98),
      takeProfit |-> R(102), oversize |-> FALSE] : p \in {R(-5), R(0), PosInf, NaN}}

WellFormedSignal(signal) ==
    /\ SymbolMatches(signal.symbol)
    /\ ToLowerCase(signal.action) \in RecognizedActions
    /\ IsNaN(signal.price) \/ (IsFinite(signal.price) /\ RGt(signal.price, R(0)))

C21_QueuedSignalsWellFormed ==
    /\ \A i \in 1..Len(signalQueue) : WellFormedSignal(signalQueue[i])
    /\ listening =>
          \A cred \in Credentials,
             data \in Payloads \cup InvalidPayloads \cup OddPricePayloads :
              LET r == postWebhook(Intake, webhookSecret, allowedIPs, cred[1], cred[2],
                                   data, now, isActive)
              IN  \A i \in 1..Len(r.ik.queue) : WellFormedSignal(r.ik.queue[i])

(***************************************************************************)
(* C22  Rebalance sweep: rebalancePortfolio closes exactly the open        *)
(* positions whose unrealized fraction is below -15%, each with reason     *)
(* rebalance; a position above +25% stays open and gets an advisory;       *)
(* every other position is left as it was.                                 *)
(* Fails: the selection is as stated, the reason recorded is               *)
(* rebalance_loss.                                                         *)
(***************************************************************************)
UnrealizedFraction(position) ==
    RDiv(position.unrealizedPnL, RMul(position.size, position.entryPrice))

SweptIds == {id \in OpenIds : RLt(UnrealizedFraction(positions[id]), <<-3, 20>>)}

AdvisedIds == {id \in OpenIds : RGt(UnrealizedFraction(positions[id]), <<1, 4>>)}

C22_SweepSelection ==
    LET after == rebalancePortfolio(Book)
        added == SubSeq(after.trades, Len(closedTrades) + 1, Len(after.trades))
    IN  /\ DOMAIN after.pos = OpenIds \ SweptIds
        /\ \A id \in DOMAIN after.pos : after.pos[id] = positions[id]
        /\ {added[i].id : i \in 1..Len(added)} = SweptIds
        /\ Len(added) = Cardinality(SweptIds)
        /\ \A id \in OpenIds :
              id \in AdvisedIds <=>
                  \E i \in 1..Len(after.ev) :
                      after.ev[i] = [type |-> "partialProfitSuggestion", id |-> id]

C22_RebalanceSweep ==
    /\ C22_SweepSelection
    /\ LET after == rebalancePortfolio(Book)
       IN  \A i \in Len(closedTrades) + 1..Len(after.trades) :
               after.trades[i].reason = "rebalance"

(***************************************************************************)
(* C23  Every trade in the history, whichever path closed it, has a        *)
(* closeReason among stop_loss, take_profit, manual, rebalance, shutdown.  *)
(* Fails: a close signal records manual_close, stop() records              *)
(* system_shutdown and the rebalance records rebalance_loss.               *)
(***************************************************************************)
CloseReasons == {"stop_loss", "take_profit", "manual", "rebalance", "shutdown"}

C23_CloseReasonListed ==
    \A i \in 1..Len(closedTrades) : closedTrades[i].reason \in CloseReasons

(***************************************************************************)
(* C24  Position lifecycle: an id goes from open to closed and stays       *)
(* closed. In every step the history keeps its entries (it only grows at   *)
(* the end), an id that is in the history is not in the open set, and an   *)
(* id that left the open set is in the history.                            *)
(***************************************************************************)
IsPrefix(s, t) == Len(s) <= Len(t) /\ SubSeq(t, 1, Len(s)) = s

C24_LifecycleStep ==
    /\ IsPrefix(closedTrades, closedTrades')
    /\ ClosedIds \cap DOMAIN positions' = {}
    /\ DOMAIN positions' \cap {closedTrades'[i].id : i \in 1..Len(closedTrades')} = {}
    /\ \A id \in OpenIds \ DOMAIN positions' :
          \E i \in Len(closedTrades) + 1..Len(closedTrades') : closedTrades'[i].id = id

C24_Lifecycle == [][C24_LifecycleStep]_vars

\* a position is opened while the history already holds a trade
W_C24_OpenedAfterClose ==
    /\ lastCall.op = "openPosition" /\ lastCall.ret = "position"
    /\ closedTrades # <<>> /\ OpenIds # {}

(***************************************************************************)
(* C25  The broker adapter is invoked for a buy or sell signal only when   *)
(* the position of that signal is admitted: a pass that generated the      *)
(* broker alert of its signal does not have the position refused when it   *)
(* goes on to the portfolio.                                               *)
(* Fails: the alert is generated and emitted before canOpenPosition is     *)
(* asked.                                                                  *)
(***************************************************************************)
\* the pass generated the broker alert of its signal before it was suspended
BrokerAlerted(pass) ==
    \E i \in 1..Len(BeforeAwait(Book, pass.signal).bk.ev) :
        BeforeAwait(Book, pass.signal).bk.ev[i] =
            [type |-> "quantfuryAlert", signal |-> pass.signal.id]

\* the portfolio part of the pass, run now, refuses the position
Refused(pass) ==
    /\ pass.stage = "book"
    /\ \E i \in 1..Len(AfterAwait(Book, pass).ev) :
          AfterAwait(Book, pass).ev[i].type = "positionRejected"

C25_BrokerOnlyWhenAdmitted ==
    \A pass \in passes : BrokerAlerted(pass) => ~Refused(pass)

(***************************************************************************)
(* C26  Profit factor: for every history of closed trades the profit       *)
(* factor is the sum of the winning PnL divided by the absolute sum of     *)
(* the losing PnL, it is the sum of the winning PnL when the losing PnL    *)
(* sums to zero (0 for the empty history), and it is never NaN.  The       *)
(* histories are those of the reachable states and those that one or two   *)
(* more closes make of them, at a listed price or at Infinity.             *)
(* Fails: a win and a loss that are both infinite give Infinity/Infinity.  *)
(***************************************************************************)
WinningSum(trades) ==
    SeqSum([i \in 1..Len(trades) |->
               IF RGt(trades[i].realizedPnL, R(0)) THEN trades[i].realizedPnL ELSE R(0)])

LosingSum(trades) ==
    SeqSum([i \in 1..Len(trades) |->
               IF RLt(trades[i].realizedPnL, R(0)) THEN trades[i].realizedPnL ELSE R(0)])

ExpectedProfitFactor(trades) ==
    IF LosingSum(trades) = R(0) THEN WinningSum(trades)
    ELSE RDiv(WinningSum(trades), RAbs(LosingSum(trades)))

\* the histories one or two more closes make of the present one
HistoriesAfter(prices) ==
    {closePosition(closePosition(Book, i, p, "manual").bk, j, q, "manual").bk.trades :
        i \in OpenIds \cup {0}, j \in OpenIds \cup {0}, p \in prices, q \in prices}

\* the value is the quotient, or the winning sum when nothing was lost
C26_ProfitFactorValue ==
    /\ \A trades \in HistoriesAfter(ClosePrices \cup {PosInf}) :
          getProfitFactor(trades) = ExpectedProfitFactor(trades)
    /\ lastCall.op = "updatePositions" =>
          emitted[Len(emitted)].summary.profitFactor = ExpectedProfitFactor(closedTrades)

\* ... and it is a number, for finite close prices
C26_ProfitFactorFinitePrices ==
    \A trades \in HistoriesAfter(ClosePrices) : ~IsNaN(getProfitFactor(trades))

C26_ProfitFactor ==
    /\ C26_ProfitFactorValue
    /\ \A trades \in HistoriesAfter(ClosePrices \cup {PosInf}) :
          ~IsNaN(getProfitFactor(trades))

(***************************************************************************)
(* C27  Pause is tested only when a signal is enqueued: a signal that is   *)
(* in the queue is picked up by the next firing of the drain timer         *)
(* whether or not the system has been paused since, and a pass that is     *)
(* under way goes on with its signal.                                      *)
(* Fails: the timer callback tests isActive too, so what was queued        *)
(* before the pause stays in the queue while the system is paused.         *)
(***************************************************************************)
\* a pass under way finishes its signal whatever isActive is: the part after
\* the await reads the book and the pass only
C27_RunningPassContinues ==
    [][\A pass \in passes :
           (~isActive /\ passes' = passes \ {pass} /\ pass.stage = "book")
               => positions' = AfterAwait(Book, pass).pos]_vars

C27_PauseOnlyAtEnqueue ==
    signalQueue # <<>> => DrainStarts(signalQueue, isActive)

(***************************************************************************)
(* C28  Revaluation precedes the exit check: a trade that a price tick     *)
(* closed through the exit check (reason stop_loss or take_profit) has     *)
(* the unrealizedPnL of that tick frozen in it, equal to its realizedPnL,  *)
(* and its excursion extremes include the fraction of that tick.           *)
(***************************************************************************)
ExitTrades ==
    {i \in 1..Len(closedTrades) : closedTrades[i].reason \in {"stop_loss", "take_profit"}}

C28_RevaluedBeforeExit ==
    \A i \in ExitTrades :
        LET trade == closedTrades[i]
            fraction == RDiv(trade.realizedPnL, RMul(trade.size, trade.entryPrice))
        IN  /\ trade.unrealizedPnL = trade.realizedPnL
            /\ trade.realizedPnL = calculatePnL(trade, trade.closePrice)
            /\ RLe(trade.maxDrawdown, fraction) /\ RLe(fraction, trade.maxProfit)

\* a tick has just closed a position at a gain or a loss
W_C28_ExitedByTick ==
    /\ lastCall.op = "updatePositions"
    /\ \E i \in ExitTrades :
          /\ closedTrades[i].realizedPnL # R(0)
          /\ \E j \in 1..Len(emitted) :
                emitted[j].type = "positionClosed" /\ emitted[j].id = closedTrades[i].id

(***************************************************************************)
(* C29  The recent-signal window holds accepted signals only: every entry  *)
(* of it (and so every entry GET /signals/recent returns) passed           *)
(* isValidSignal and was appended to the signal queue.                     *)
(* Fails: processSignal stores the signal before it validates it, and      *)
(* before queueSignal tests isActive.                                      *)
(***************************************************************************)
C29_WindowHoldsAccepted ==
    \A i \in 1..Len(recentSignals) :
        /\ isValidSignal(recentSignals[i])
        /\ alerts[recentSignals[i].id].queued

(***************************************************************************)
(* C30  The daily PnL series is a bounded ring: it never holds more than   *)
(* 252 entries, and a daily update of a full series drops the oldest       *)
(* entry and appends the newest, the others keeping their order; below     *)
(* 252 the update appends.                                                 *)
(***************************************************************************)
C30_RingStep ==
    days' = days + 1 =>
        /\ Len(dailyPnL') <= 252
        /\ IF Len(dailyPnL) = 252
           THEN /\ Len(dailyPnL') = 252
                /\ SubSeq(dailyPnL', 1, 251) = Tail(dailyPnL)
           ELSE /\ Len(dailyPnL') = Len(dailyPnL) + 1
                /\ SubSeq(dailyPnL', 1, Len(dailyPnL)) = dailyPnL
        /\ dailyPnL'[Len(dailyPnL')] =
              RSub(RAdd(currentCapital, CommittedCapital),
                   RAdd(R(initialCapital), SeqSum(dailyPnL)))

C30_DailyRing == [][C30_RingStep]_vars

\* a full series has been updated after a trade moved the value: the last
\* two entries differ from the quiet days before them
W_C30_FullRingTurned ==
    /\ lastCall.op = "updateDailyPnL"
    /\ Len(dailyPnL) = 252
    /\ days >= 2
    /\ dailyPnL[251] # R(0)

(***************************************************************************)
(* C31  Revaluation frame (as claimed): a price tick changes only the      *)
(* unrealizedPnL and the excursion extremes of the open positions whose    *)
(* symbol it carries a price for; it closes no position, leaves the        *)
(* capital and the trade history as they were and does not touch a         *)
(* position whose symbol is absent from the tick or priced zero.           *)
(* Fails: updatePositions runs the exit check on every position it has     *)
(* revalued, and the exit check closes.                                    *)
(***************************************************************************)
\* the tick carries a price for the symbol of the position
Priced(position, marketData) ==
    position.symbol \in DOMAIN marketData /\ Truthy(marketData[position.symbol])

\* the two records agree except on unrealizedPnL and the excursion extremes
SameButValuation(p, q) ==
    [p EXCEPT !.unrealizedPnL = R(0), !.maxProfit = R(0), !.maxDrawdown = R(0)] =
    [q EXCEPT !.unrealizedPnL = R(0), !.maxProfit = R(0), !.maxDrawdown = R(0)]

\* the frame of the positions the tick leaves open
TickFrame(after, marketData) ==
    \A id \in DOMAIN after.pos :
        /\ id \in OpenIds
        /\ IF Priced(positions[id], marketData)
           THEN /\ SameButValuation(after.pos[id], positions[id])
                /\ after.pos[id].unrealizedPnL =
                       calculatePnL(positions[id], marketData[positions[id].symbol])
           ELSE after.pos[id] = positions[id]

C31_TickNeverCloses ==
    \A marketData \in MarketDatas :
        LET after == updatePositions(Book, marketData)
        IN  /\ TickFrame(after, marketData)
            /\ DOMAIN after.pos = OpenIds
            /\ after.cap = currentCapital
            /\ after.trades = closedTrades

(***************************************************************************)
(* C31  Revaluation frame (amended): a price tick closes exactly the       *)
(* priced positions whose exit condition holds at the tick price, each     *)
(* through closePosition at that price; every other position stays open,   *)
(* changed in nothing but unrealizedPnL and the excursion extremes if it   *)
(* is priced and in nothing at all if it is not; the capital grows by the  *)
(* proceeds of the closes and the history by their trades.                 *)
(***************************************************************************)
\* the positions the exit check of the tick closes
ExitedIds(marketData) ==
    {id \in OpenIds :
        /\ Priced(positions[id], marketData)
        /\ ExitReason(positions[id], marketData[positions[id].symbol]) # ""}

C31_RevaluationFrame ==
    \A marketData \in MarketDatas :
        LET after == updatePositions(Book, marketData)
            added == SubSeq(after.trades, Len(closedTrades) + 1, Len(after.trades))
        IN  /\ TickFrame(after, marketData)
            /\ DOMAIN after.pos = OpenIds \ ExitedIds(marketData)
            /\ SubSeq(after.trades, 1, Len(closedTrades)) = closedTrades
            /\ Len(added) = Cardinality(ExitedIds(marketData))
            /\ \A i \in 1..Len(added) :
                  /\ added[i].id \in ExitedIds(marketData)
                  /\ added[i].closePrice = marketData[added[i].symbol]
                  /\ added[i].reason \in {"stop_loss", "take_profit"}
            /\ after.cap =
                  RAdd(currentCapital,
                       SeqSum([i \in 1..Len(added) |->
                                  RMul(added[i].size, added[i].closePrice)]))

\* two positions are open, the tick prices one of them without closing it
\* and carries no price for the other
W_C31_PricedAndAbsent ==
    \E marketData \in MarketDatas, id \in OpenIds, other \in OpenIds :
        /\ Priced(positions[id], marketData)
        /\ id \notin ExitedIds(marketData)
        /\ ~Priced(positions[other], marketData)
        /\ updatePositions(Book, marketData).pos[id] # positions[id]

(***************************************************************************)
(* C32  A rejected admission leaves the portfolio untouched: when          *)
(* canOpenPosition or openPosition (called directly or for a buy/sell      *)
(* signal) refuses a candidate, the capital, the open positions and the    *)
(* trade history are what they were, no positionOpened event is emitted,   *)
(* and the refusal is the returned false together with one                 *)
(* positionRejected event.                                                 *)
(***************************************************************************)
\* the book holds what the manager holds now
Untouched(bk) ==
    bk.cap = currentCapital /\ bk.pos = positions /\ bk.trades = closedTrades

RejectionReported(bk) ==
    /\ Len(bk.ev) = 1 /\ bk.ev[1].type = "positionRejected"
    /\ \A i \in 1..Len(bk.ev) : bk.ev[i].type # "positionOpened"

C32_RejectionLeavesState ==
    /\ \A symbol \in LedgerSymbols :
          LET r == canOpenPosition(Book, symbol)
          IN  /\ Untouched(r.bk)
              /\ ~r.ret => RejectionReported(r.bk)
    /\ \A signal \in CandidateSignals :
          LET o == openPosition(Book, signal)
              t == trackVirtualPosition(Book, signal)
          IN  /\ o.ret \in {"false", "position"} /\ t.ret \in {"false", "position"}
              /\ o.ret = "false" => Untouched(o.bk) /\ RejectionReported(o.bk)
              /\ t.ret = "false" => Untouched(t.bk) /\ RejectionReported(t.bk)

\* openPosition has just refused a candidate while a position is open
W_C32_RefusedWithOpenPosition ==
    /\ lastCall.op = "openPosition" /\ lastCall.ret = "false"
    /\ OpenIds # {}
    /\ currentCapital # R(initialCapital)
    /\ RejectionReported([ev |-> emitted])

(***************************************************************************)
(* C33  Queue liveness: while the system stays active and the drain timer  *)
(* keeps firing, every signal in the signal queue eventually leaves it,    *)
(* and it leaves it once, into the hands of a drain pass that runs it;     *)
(* a signal whose processing fails does not keep the signals queued        *)
(* behind it from being taken.                                             *)
(***************************************************************************)
QueueIds == {signalQueue[i].id : i \in 1..Len(signalQueue)}

PassIds == {pass.signal.id : pass \in passes}


\* once: no id is twice in the queue or both queued and in a pass, and an id
\* that leaves the queue is the head, goes to one pass and never returns
C33_HandedOnceStep ==
    /\ \A i, j \in 1..Len(signalQueue) : signalQueue[i].id = signalQueue[j].id => i = j
    /\ QueueIds \cap PassIds = {}
    /\ \A id \in QueueIds \ {signalQueue'[i].id : i \in 1..Len(signalQueue')} :
          /\ id = Head(signalQueue).id
          /\ signalQueue' = Tail(signalQueue)
          /\ \/ \E pass \in passes' : pass.signal.id = id
             \/ id \in {lastCall'.decided[i] : i \in 1..Len(lastCall'.decided)}
    /\ \A i \in 1..Len(signalQueue') :
          signalQueue'[i].id \in QueueIds \/ signalQueue'[i].id >= signalSeq

C33_HandedOnce == [][C33_HandedOnceStep]_vars

\* every queued signal is eventually taken off the queue, once
C33_QueueLiveness ==
    /\ \A id \in 1..MaxAlerts : (id \in QueueIds) ~> (id \notin QueueIds)
    /\ C33_HandedOnce

\* the processing of a signal has just failed and the pass has taken the
\* next signal from the queue
W_C33_FailureThenNext ==
    /\ \E i \in 1..Len(emitted) : emitted[i].type = "signalError"
    /\ lastCall.op = "drain" /\ lastCall.ret = "suspended"
    /\ passes # {}

(***************************************************************************)
(* C34  Event protocol.  Whatever ledger operation runs next, from any     *)
(* reachable state, its positionOpened events are exactly the ids it       *)
(* issued, one event each, and its positionClosed events are exactly the   *)
(* trades it appended, one event each, every one of them for a position    *)
(* that was open (so opened earlier) and was not in the history yet.  The  *)
(* ids issued so far are 1..nextId-1, one positionOpened event each, and   *)
(* that number is the number of open positions plus the number of closed   *)
(* trades.                                                                 *)
(***************************************************************************)
\* the ids of the events of one type, in the order of emission
EventIds(ev, type) ==
    LET of == SelectSeq(ev, LAMBDA x : x.type = type)
    IN  [i \in 1..Len(of) |-> of[i].id]

NoRepeats(s) == \A i, j \in 1..Len(s) : s[i] = s[j] => i = j

TradeIds(bk) == {bk.trades[i].id : i \in 1..Len(bk.trades)}

KnownIds(bk) == DOMAIN bk.pos \cup TradeIds(bk)

\* the ledger after each operation that could run now
LedgerOutcomes ==
    {openPosition(Book, signal).bk : signal \in CandidateSignals}
    \cup {closePosition(Book, id, closePrice, "manual").bk :
             id \in 1..nextId, closePrice \in ClosePrices}
    \cup {updatePositions(Book, marketData) : marketData \in MarketDatas}
    \cup {rebalancePortfolio(Book)}

EventProtocol(before, after) ==
    LET opened == EventIds(after.ev, "positionOpened")
        closed == EventIds(after.ev, "positionClosed")
    IN  /\ NoRepeats(opened) /\ NoRepeats(closed)
        /\ {opened[i] : i \in 1..Len(opened)} = KnownIds(after) \ KnownIds(before)
        /\ Len(opened) = after.nid - before.nid
        /\ {closed[i] : i \in 1..Len(closed)} = TradeIds(after) \ TradeIds(before)
        /\ Len(closed) = Len(after.trades) - Len(before.trades)
        /\ \A i \in 1..Len(closed) : closed[i] \in DOMAIN before.pos

C34_EventProtocol ==
    /\ \A after \in LedgerOutcomes : EventProtocol(Book, after)
    /\ KnownIds(Book) = 1..(nextId - 1)
    /\ OpenIds \cap ClosedIds = {}
    /\ nextId - 1 = Cardinality(OpenIds) + Len(closedTrades)

\* two positions were opened and a tick has just closed one of them
W_C34_OneOfTwoClosed ==
    /\ lastCall.op = "updatePositions"
    /\ Len(EventIds(emitted, "positionClosed")) = 1
    /\ OpenIds # {} /\ nextId = 3

(***************************************************************************)
(* C35  Every position opened from a buy or sell alert has a numeric       *)
(* stopLoss and takeProfit on opposite sides of its entryPrice: long       *)
(* stopLoss < entryPrice < takeProfit, short takeProfit < entryPrice <     *)
(* stopLoss, also when the alert carries no stop-loss or no take-profit.   *)
(* Fails: the default take-profit is computed from the stop-loss of the    *)
(* alert, not from the defaulted one, so an alert without either gets a    *)
(* takeProfit of NaN.                                                      *)
(***************************************************************************)
\* queued buy and sell alerts of a supported symbol whose stop_loss and
\* take_profit are either absent (parseFloat(undefined) is NaN) or on the
\* proper side of the price
AlertsWithOptionalStops ==
    UNION {{[id |-> 1, symbol |-> "BTCUSD", action |-> ac, type |-> ac, price |-> R(100),
             stopLoss |-> sl, takeProfit |-> tp] :
               sl \in {NaN, IF ac = "buy" THEN R(98) ELSE R(102)},
               tp \in {NaN, IF ac = "buy" THEN R(105) ELSE R(95)}} :
           ac \in {"buy", "sell"}}

StopsBracketEntry(position) ==
    /\ IsFinite(position.stopLoss) /\ IsFinite(position.takeProfit)
    /\ IF position.side = "long"
       THEN RLt(position.stopLoss, position.entryPrice)
            /\ RLt(position.entryPrice, position.takeProfit)
       ELSE RLt(position.takeProfit, position.entryPrice)
            /\ RLt(position.entryPrice, position.stopLoss)

C35_StopsBracketEntry ==
    \A signal \in AlertsWithOptionalStops :
        LET side == IF signal.type = "buy" THEN "long" ELSE "short"
            r == trackVirtualPosition(Book, positionSignal(signal, side))
        IN  (validateSignal(signal) /\ r.ret = "position")
                => StopsBracketEntry(r.bk.pos[r.id])

(***************************************************************************)
(* C36  A position that the rebalance force-closes, long or short, is      *)
(* closed at the price of its last revaluation: the realizedPnL of its     *)
(* trade is the unrealizedPnL the position had at the sweep.               *)
(* Fails for a short: the close price is entryPrice * (1 + fraction),      *)
(* which mirrors the price around the entry, so the losing short is        *)
(* recorded with a profit of the same amount.                              *)
(***************************************************************************)
\* a long and a short whose stops are wide enough to survive the tick
WideStopSignals ==
    {[symbol |-> "BTC/USDT", side |-> "long", price |-> R(100),
      stopLoss |-> R(20), takeProfit |-> R(500)],
     [symbol |-> "ETH", side |-> "short", price |-> R(100),
      stopLoss |-> R(300), takeProfit |-> R(20)]}

\* the trades the sweep adds after the candidate was opened and the tick
\* revalued it, each with the price of that tick
SweepTrades(signal, marketData) ==
    LET ticked == updatePositions(openPosition(Book, signal).bk, marketData)
        swept == rebalancePortfolio(ticked)
    IN  {swept.trades[i] : i \in Len(ticked.trades) + 1..Len(swept.trades)}

C36_SweepRealizesUnrealized ==
    \A signal \in WideStopSignals, marketData \in MarketDatas :
        \A trade \in SweepTrades(signal, marketData) :
            /\ REq(trade.realizedPnL, trade.unrealizedPnL)
            /\ Truthy(marketData[trade.symbol]) =>
                   REq(trade.closePrice, marketData[trade.symbol])

(***************************************************************************)
(* C37  With positive prices the available capital is never negative and   *)
(* every open position has a size above 0; a position that is opened       *)
(* commits size * entryPrice of no more than the capital available at that *)
(* moment.  This is so in every reachable state, after every operation     *)
(* that could run next (open, manual close, tick, rebalance), and when a   *)
(* candidate with a tight or a wide stop is opened, revalued and swept,    *)
(* the swept short with its mirrored close price included.                 *)
(***************************************************************************)
\* the candidates of the model, the ones with wide stops and a long whose
\* stop is 1% away, for which the risk-based value is twice the capital
SizedSignals ==
    CandidateSignals \cup WideStopSignals
    \cup {[symbol |-> "ETH", side |-> "long", price |-> R(100),
           stopLoss |-> R(99), takeProfit |-> R(500)]}

\* the ticks of the model and one that takes ETH beyond twice the entry
SweepTicks ==
    MarketDatas \cup {[sy \in LedgerSymbols |-> IF sy = "ETH" THEN R(250) ELSE R(0)]}

CapitalAndSizesOk(bk) ==
    /\ RGe(bk.cap, R(0))
    /\ \A id \in DOMAIN bk.pos : RGt(bk.pos[id].size, R(0))

C37_CapitalAndSizes ==
    /\ CapitalAndSizesOk(Book)
    /\ \A after \in LedgerOutcomes : CapitalAndSizesOk(after)
    /\ \A signal \in SizedSignals :
          LET o == openPosition(Book, signal)
          IN  o.ret = "position" =>
                /\ CapitalAndSizesOk(o.bk)
                /\ RLe(RMul(o.bk.pos[o.id].size, o.bk.pos[o.id].entryPrice), currentCapital)
                /\ \A marketData \in SweepTicks :
                      LET ticked == updatePositions(o.bk, marketData)
                      IN  /\ CapitalAndSizesOk(ticked)
                          /\ CapitalAndSizesOk(rebalancePortfolio(ticked))

\* the sweep has run with a position open and a trade in the history, and
\* part of the capital is committed
W_C37_SweptWithCommitted ==
    /\ lastCall.op = "rebalancePortfolio"
    /\ closedTrades # <<>> /\ OpenIds # {}
    /\ RLt(currentCapital, R(initialCapital))

(***************************************************************************)
(* C38  Excursion extremes.  For every open position maxProfit is at       *)
(* least 0, maxDrawdown is at most 0 and the current unrealized fraction   *)
(* lies between the two; no operation that could run next lowers the       *)
(* maxProfit or raises the maxDrawdown of a position, whether the          *)
(* position stays open or goes into the history with that operation.       *)
(***************************************************************************)
ExcursionsBracket(position) ==
    /\ RGe(position.maxProfit, R(0))
    /\ RLe(position.maxDrawdown, R(0))
    /\ RLe(position.maxDrawdown, UnrealizedFraction(position))
    /\ RLe(UnrealizedFraction(position), position.maxProfit)

\* later is the record of the same position after an operation
ExcursionsWiden(earlier, later) ==
    /\ RGe(later.maxProfit, earlier.maxProfit)
    /\ RLe(later.maxDrawdown, earlier.maxDrawdown)

C38_ExcursionExtremes ==
    /\ \A id \in OpenIds : ExcursionsBracket(positions[id])
    /\ \A after \in LedgerOutcomes :
          /\ \A id \in DOMAIN after.pos :
                /\ ExcursionsBracket(after.pos[id])
                /\ id \in OpenIds => ExcursionsWiden(positions[id], after.pos[id])
          /\ \A i \in Len(closedTrades) + 1..Len(after.trades) :
                ExcursionsWiden(positions[after.trades[i].id], after.trades[i])

\* a position that has been up and down: revalued below its best excursion
\* and above its worst
W_C38_UpAndDown ==
    /\ lastCall.op = "updatePositions"
    /\ \E id \in OpenIds :
          /\ RGt(positions[id].maxProfit, R(0))
          /\ RLt(positions[id].maxDrawdown, R(0))
          /\ RLt(UnrealizedFraction(positions[id]), positions[id].maxProfit)

(***************************************************************************)
(* C39  Deduplication covers the aliases of an action: of two alerts for   *)
(* the same symbol that arrive within signalTTL with the actions buy and   *)
(* long, sell and short, or close and exit, at most one is queued, so the  *)
(* queue never gets both as the same type.                                 *)
(* Fails: isDuplicateSignal compares the action strings, so the alias is   *)
(* a different action to it and both alerts are queued as one type.        *)
(***************************************************************************)
ActionAliases == {<<"buy", "long">>, <<"sell", "short">>, <<"close", "exit">>}

AliasAlert(action) ==
    [symbol |-> "BTCUSD", action |-> action, price |-> R(100), stopLoss |-> R(98),
     takeProfit |-> R(102), oversize |-> FALSE]

\* the signals the two alerts add to the queue, posted one after the other
\* at the same instant by an admitted sender
QueuedOfPair(pair) ==
    LET first == postWebhook(Intake, webhookSecret, allowedIPs, "tv", "valid",
                             AliasAlert(pair[1]), now, isActive)
        second == postWebhook(first.ik, webhookSecret, allowedIPs, "tv", "valid",
                              AliasAlert(pair[2]), now, isActive)
    IN  SubSeq(second.ik.queue, Len(signalQueue) + 1, Len(second.ik.queue))

C39_AliasesDeduplicated ==
    listening =>
        \A pair \in ActionAliases :
            LET queued == QueuedOfPair(pair)
            IN  ~(Len(queued) = 2 /\ queued[1].type = queued[2].type)

====
